---- MODULE Spec2Model ----
(***************************************************************************)
(* Tool execution boundary and call session of the voice agent.            *)
(*                                                                         *)
(*   - DeepgramToolAdapter.handle_tool_call_event / send_tool_result       *)
(*     (src/src/tools/adapters/deepgram.py)                                *)
(*   - ExitARITool.execute (src/src/tools/telephony/exit_ari.py)           *)
(*   - the call session state machine and its call-end handler, which are  *)
(*     not part of the available sources and are modelled from the         *)
(*     specification (section 4.3).                                        *)
(*                                                                         *)
(*   - the Azure STT/TTS adapters (src/src/pipelines/azure.py): their      *)
(*     shared client session under concurrent calls (SpecAdapter) and one  *)
(*     transcribe / synthesize operation in detail (SpecTurn).             *)
(*                                                                         *)
(* A coroutine is cut into actions at its await points; between two        *)
(* awaits the code runs without interleaving (asyncio), so each action is  *)
(* atomic.  Each specification moves its own variables and leaves the      *)
(* others at their initial values.                                         *)
(***************************************************************************)
EXTENDS Integers, Sequences, FiniteSets, TLC

\* ------------------------------------------------------------------ bounds
\* tool-call events handled during one call
MaxTurns == 2
\* seconds the model clock counts while a tool execution is awaited
MaxElapsed == 6
\* send_tool_result invocations the provider makes on one result
MaxSendCalls == 2

\* ------------------------------------------------------------ Python values
\* Python's None
NoneVal == "<None>"
\* `not v` for the string-like values of the model
Falsy(v) == v \in {NoneVal, ""}

\* ------------------------------------------------------- exit_ari: metadata
\* ToolDefinition.max_execution_time of exit_ari, in seconds
max_execution_time == 5
\* ExitARITool.__init__ defaults
default_context == "default"
default_extension == "s"
default_priority == 1

\* ------------------------------------------------------------------ inputs
\* ids the n-th provider event of a call may carry: none ("id" missing
\* gives None), an empty one, or the provider's id of its n-th call
EventIds(n) == {NoneVal, "", "call_" \o ToString(n)}
\* the tool registry's catalogue: exit_ari is the tool of the sources;
\* transfer_call stands for a tool that follows the transfer discipline of
\* the specification; stub_tool is an arbitrary Tool implementation
Registry == {"exit_ari", "transfer_call", "stub_tool"}
\* function names of events: registered ones, an unregistered one, and None
\* (event without function_call or without name)
EventNames == Registry \cup {"no_such_tool", NoneVal}

\* `arguments` of an event: a mapping given by the set of keys it has and
\* their values (a value is meaningful only when its key is present)
Params(keys, farewell_message, context, extension, priority) ==
    [keys |-> keys, farewell_message |-> farewell_message,
     context |-> context, extension |-> extension, priority |-> priority]
\* the argument mappings the model draws from: empty; a farewell only; an
\* empty farewell with a full dialplan target; a farewell with falsy
\* target values (which `or` replaces by the defaults)
ParameterChoices ==
    { Params({}, "", "", "", 0),
      Params({"farewell_message"}, "Goodbye", "", "", 0),
      Params({"farewell_message", "context", "extension", "priority"},
             "", "ivr", "100", 2),
      Params({"farewell_message", "context", "priority"},
             "Goodbye", "", "", 0) }
\* a provider event: its id, the function name, and the arguments, which
\* are a mapping or (args_is_mapping false) a null / non-mapping value
Events(n) ==
    [id : EventIds(n), name : EventNames, args_is_mapping : {TRUE},
     arguments : ParameterChoices]
    \cup
    [id : EventIds(n), name : EventNames, args_is_mapping : {FALSE},
     arguments : {Params({}, "", "", "", 0)}]

\* the context dict handed to handle_tool_call_event, by the presence of
\* the keys the handler subscripts and the values the tool tests
Ctx(has_call_id, has_session_store, ari_client, caller_channel_id) ==
    [has_call_id |-> has_call_id, has_session_store |-> has_session_store,
     ari_client |-> ari_client, caller_channel_id |-> caller_channel_id]
\* complete; lacking call_id, session_store or ari_client; with a None
\* ARI client; without a caller channel id
Contexts ==
    { Ctx(TRUE, TRUE, "client", "chan_1"),
      Ctx(FALSE, TRUE, "client", "chan_1"),
      Ctx(TRUE, FALSE, "client", "chan_1"),
      Ctx(TRUE, TRUE, "<missing>", "chan_1"),
      Ctx(TRUE, TRUE, NoneVal, "chan_1"),
      Ctx(TRUE, TRUE, "client", NoneVal) }

\* --------------------------------------------------------------- results
\* A result mapping: the keys it has and their values.  message is the
\* text; dialplan_location is the triple (context, extension, priority).
NoLocation == <<>>
MkResult(keys, status, message, will_exit, speak, loc, fcid) ==
    [keys |-> keys, status |-> status, message |-> message,
     will_exit |-> will_exit, ai_should_speak |-> speak,
     dialplan_location |-> loc, function_call_id |-> fcid]
NoResult == MkResult({}, NoneVal, "", FALSE, FALSE, NoLocation, NoneVal)

\* exit_ari.py:115-129  the two early error returns
NoAriClientResult ==
    MkResult({"status", "message", "will_exit"}, "error",
             "Cannot exit ARI: no ARI client available",
             FALSE, FALSE, NoLocation, NoneVal)
NoChannelResult ==
    MkResult({"status", "message", "will_exit"}, "error",
             "Cannot exit ARI: no channel ID",
             FALSE, FALSE, NoLocation, NoneVal)

\* exit_ari.py:132  parameters.get('farewell_message', '')
GetFarewell(p) ==
    IF "farewell_message" \in p.keys THEN p.farewell_message ELSE ""
\* exit_ari.py:133-137  `parameters.get(k) or default`, then the location
DialplanLocation(p) ==
    << IF "context" \in p.keys /\ ~Falsy(p.context)
          THEN p.context ELSE default_context,
       IF "extension" \in p.keys /\ ~Falsy(p.extension)
          THEN p.extension ELSE default_extension,
       IF "priority" \in p.keys /\ p.priority # 0
          THEN p.priority ELSE default_priority >>

\* exit_ari.py:156-171  continue_in_dialplan returned a true value
ExitSuccessResult(farewell, loc) ==
    MkResult({"status", "message", "will_exit", "ai_should_speak",
              "dialplan_location"},
             "success",
             IF ~Falsy(farewell) THEN farewell
                                 ELSE "Continuing in dialplan at <location>",
             TRUE, ~Falsy(farewell), loc, NoneVal)
\* mutant: the failure branch reports a status outside the contract
ExitFailedResultBadStatus ==
    MkResult({"status", "message", "will_exit"}, "failed",
             "Failed to exit ARI", FALSE, FALSE, NoLocation, NoneVal)
\* exit_ari.py:172-182  continue_in_dialplan returned a false value
ExitFailedResult ==
    MkResult({"status", "message", "will_exit"}, "error",
             "Failed to exit ARI", FALSE, FALSE, NoLocation, NoneVal)
\* exit_ari.py:184-196  continue_in_dialplan raised
ExitRaisedResult ==
    MkResult({"status", "message", "will_exit", "error"}, "error",
             "Error exiting ARI: <exception>", FALSE, FALSE, NoLocation,
             NoneVal)

\* ------------------------------------------------ ExitARITool.execute
\* mutant: the caller channel id is not tested
ExitARIBeginChannelUntested(ev, ctx) ==
    IF Falsy(ctx.ari_client)
    THEN [kind |-> "return", result |-> NoAriClientResult,
          farewell |-> "", loc |-> NoLocation]
    ELSE IF ~ev.args_is_mapping
    THEN [kind |-> "raise", result |-> NoResult,
          farewell |-> "", loc |-> NoLocation]
    ELSE [kind |-> "await", result |-> NoResult,
          farewell |-> GetFarewell(ev.arguments),
          loc |-> DialplanLocation(ev.arguments)]

\* exit_ari.py:115-154  execute up to its await: an early error return, a
\* fault raised by parameters.get on a non-mapping, or the
\* continue_in_dialplan call issued for the channel
ExitARIBegin(ev, ctx) ==
    IF Falsy(ctx.ari_client)
    THEN [kind |-> "return", result |-> NoAriClientResult,
          farewell |-> "", loc |-> NoLocation]
    ELSE IF Falsy(ctx.caller_channel_id)
    THEN [kind |-> "return", result |-> NoChannelResult,
          farewell |-> "", loc |-> NoLocation]
    ELSE IF ~ev.args_is_mapping
    THEN [kind |-> "raise", result |-> NoResult,
          farewell |-> "", loc |-> NoLocation]
    ELSE [kind |-> "await", result |-> NoResult,
          farewell |-> GetFarewell(ev.arguments),
          loc |-> DialplanLocation(ev.arguments)]

\* what continue_in_dialplan may do once awaited: return a true or a
\* false value, or raise (it may also never complete)
AriOutcomes == {"true", "false", "raise"}

\* mutant: the value continue_in_dialplan returned is not tested
ExitARIResumeUntested(outcome, farewell, loc) ==
    CASE outcome \in {"true", "false"} -> ExitSuccessResult(farewell, loc)
      [] OTHER -> ExitRaisedResult

\* exit_ari.py:147-196  execute from the await on
ExitARIResume(outcome, farewell, loc) ==
    CASE outcome = "true"  -> ExitSuccessResult(farewell, loc)
      [] outcome = "false" -> ExitFailedResult
      [] OTHER             -> ExitRaisedResult

\* ------------------------------------- tools outside the available sources
\* transfer_call: a tool that hands the call to the dialplan the way
\* section 4.3 prescribes (flags first, then continue_in_dialplan)
TransferResult(outcome, loc) ==
    IF outcome = "true"
    THEN MkResult({"status", "message", "will_exit", "dialplan_location"},
                  "success", "Transferring", TRUE, FALSE, loc, NoneVal)
    ELSE MkResult({"status", "message", "will_exit"},
                  "error", "Transfer failed", FALSE, FALSE, NoLocation,
                  NoneVal)

\* stub_tool: what an arbitrary Tool.execute may do once awaited: raise,
\* return a value that is not a mapping, or return a result mapping that
\* keeps the execute contract (it may also never complete); a result
\* mapping is free to carry a function_call_id field of its own
StubOutcomes == {"raise", "non_mapping", "success", "error"}
StubResult(outcome) ==
    IF outcome = "success"
    THEN MkResult({"status", "message", "function_call_id"},
                  "success", "done", FALSE, FALSE, NoLocation, "tool_own_id")
    ELSE MkResult({"status", "message"},
                  "error", "tool reported a failure", FALSE, FALSE,
                  NoLocation, NoneVal)

\* ------------------------------ DeepgramToolAdapter.handle_tool_call_event
\* ToolRegistry.get: lookup by exact tool name, None when unknown
RegistryGet(name) == IF name \in Registry THEN name ELSE NoneVal

\* mutant: the lookup result is not tested
ToolMissingUnchecked(tool) == FALSE
\* deepgram.py:99  `if not tool`
ToolMissing(tool) == tool = NoneVal

\* deepgram.py:100-106  the result for an unknown tool
UnknownToolResult(function_call_id) ==
    MkResult({"function_call_id", "status", "message"}, "error",
             "Unknown tool: <name>", FALSE, FALSE, NoLocation,
             function_call_id)

\* deepgram.py:109-118  context['call_id'], context['session_store'] and
\* context['ari_client'] are subscripted: a missing key raises KeyError,
\* outside the try block
ContextKeyError(ctx) ==
    \/ ~ctx.has_call_id
    \/ ~ctx.has_session_store
    \/ ctx.ari_client = "<missing>"

\* mutant: an id the tool put in its result is kept
WithCallIdKeepExisting(result, function_call_id) ==
    IF "function_call_id" \in result.keys
    THEN result
    ELSE [result EXCEPT !.keys = @ \cup {"function_call_id"},
                        !.function_call_id = function_call_id]
\* deepgram.py:123-125  the tool's result gets the event's id and is returned
WithCallId(result, function_call_id) ==
    [result EXCEPT !.keys = @ \cup {"function_call_id"},
                   !.function_call_id = function_call_id]

\* deepgram.py:126-134  a fault raised inside the try block
ExecutionFailedResult(function_call_id) ==
    MkResult({"function_call_id", "status", "message", "error"}, "error",
             "Tool execution failed: <exception>", FALSE, FALSE, NoLocation,
             function_call_id)

\* ----------------------------------------- DeepgramToolAdapter.send_tool_result
\* the websocket of the context dict handed to send_tool_result: absent,
\* or a connection
Websockets == {NoneVal, "ws"}

\* deepgram.py:163  result.pop('function_call_id', None): the value popped
PoppedCallId(result) ==
    IF "function_call_id" \in result.keys THEN result.function_call_id
                                          ELSE NoneVal
\* mutant: the id is read with get, and stays in the result
AfterPopKeeping(result) == result
\* deepgram.py:163  ... and the mapping left behind
AfterPop(result) ==
    [result EXCEPT !.keys = @ \ {"function_call_id"},
                   !.function_call_id = NoneVal]

\* deepgram.py:169-173  the response handed to websocket.send: its type
\* and id (the wrapped result is the payload, which is left out)
Response(function_call_id, result) ==
    [type |-> "function_call_result", id |-> function_call_id]

\* mutant: a failed send is attempted once more
AfterSendFailureRetry(attempts) ==
    IF attempts < 2 THEN [pc |-> "sending", attempts |-> attempts + 1]
                    ELSE [pc |-> "done", attempts |-> attempts]
\* deepgram.py:178-179  a failing websocket.send is caught and logged; the
\* coroutine then ends: where send_tool_result is after the failure and
\* how many send attempts it has made
AfterSendFailure(attempts) == [pc |-> "done", attempts |-> attempts]

\* ------------------------------------------------------- call session (4.3)
\* mutant: the call-end handler does not look at the flag
CallEndTargetUnchecked(flag) == "EXITED"
\* the call-end handler's decision: a flagged end notification is a clean
\* exit, an unflagged one a hangup
CallEndTarget(flag) == IF flag THEN "EXITED" ELSE "ENDING"

\* ------------------------------------------------------------------- state
VARIABLES
    \* CallSession
    state,              \* lifecycle state
    transfer_active,    \* handoff in progress
    transfer_state,     \* NoneVal or "transferring"
    transfer_target,    \* NoLocation or the dialplan location handed to
    end_cause,          \* how the call left ACTIVE/TRANSFERRING (history)
    end_after_continue, \* a call-end notification came after a
                        \* continue_in_dialplan call was issued (history)
    \* handle_tool_call_event: the coroutine's position and locals
    hpc,                \* "idle", "await_execute", "returned", "raised"
    hname,              \* function_name of the event
    htool,              \* the tool looked up (NoneVal: none)
    hid,                \* function_call_id of the event
    hfarewell,          \* farewell of the suspended execute
    hloc,               \* dialplan_location of the suspended execute
    h_ctx_built,        \* a ToolExecutionContext was constructed
    h_executed,         \* tool.execute was called
    result,             \* the result returned (NoResult: none)
    elapsed,            \* seconds the awaited tool.execute has taken
    farewell_spoken,    \* the farewell of this event has been spoken
    turns,              \* events handled so far
    \* telephony client: continue_in_dialplan calls received
    dialplan,
    \* send_tool_result: position, invocations on this result, send
    \* attempts of this invocation, responses handed to the websocket
    spc, send_calls, send_attempts, wire,
    send_log            \* what this invocation logged about its send

VARIABLES
    \* an Azure adapter object (azure.py)
    akind,              \* which adapter: its component key
    started,            \* start() has been called
    a_session,          \* self._session: 0 is None, else an index of sessions
    sessions,           \* the client sessions the factory has returned
    calls,              \* per call id: the adapter operation in progress
    stop_pc,            \* stop(): "idle", or "closing" (awaiting close())
    stop_held,          \* the session stop() is closing
    stops,              \* stop() invocations completed
    ops                 \* adapter operations begun

VARIABLES
    \* one transcribe / synthesize operation on the adapter, in detail
    t_pc,               \* "idle", "ready", "posted", "streaming", "done", "failed"
    t_in,               \* the arguments and merged options of the operation
    t_ensured,          \* the operation called _ensure_session
    t_posts,            \* requests the operation has posted
    t_resp,             \* the provider's response, once read
    t_result,           \* what transcribe returned
    t_error,            \* the exception the operation raised
    t_native,           \* synthesize: the native_encoding _decode_tts_audio gave
    t_decoded,          \* synthesize: the audio_bytes _decode_tts_audio gave
    t_source_rate,      \* synthesize: the source_rate _decode_tts_audio gave
    t_pcm,              \* synthesize: the PCM16 handed to the re-encoder
    t_converted,        \* synthesize: the audio handed to _chunk_audio
    t_chunks            \* synthesize: the chunks yielded so far, in order

VARIABLES
    \* one WAV encode / decode (the codec helpers of azure.py)
    w_pc,               \* "idle", "input", "encoded", "decoded"
    w_pcm,              \* the PCM16 bytes given to _pcm16le_to_wav
    w_rate,             \* the sample rate given to _pcm16le_to_wav
    w_wav,              \* the WAV container written
    w_out               \* what _wav_to_pcm16le returned

VARIABLES
    \* one three-level option merge with _merge_dicts
    m_pc,               \* "idle", "input", "pipeline_merged", "merged"
    m_given,            \* the three mappings as they were passed in
    m_defaults,         \* the provider defaults mapping, as it is now
    m_pipeline,         \* the pipeline options mapping, as it is now
    m_runtime,          \* the runtime options mapping, as it is now
    m_merged            \* the mapping the last _merge_dicts call returned

VARIABLES
    \* one option key as an Azure adapter composes it
    c_pc,               \* "idle", "configured", "constructed", "composed",
                        \* "failed"
    c_kind,             \* the adapter composing
    c_key,              \* the option key followed
    c_runtime,          \* runtime_options: the key's value, or Absent
    c_pipeline,         \* self._pipeline_defaults: the key's value, or Absent
    c_provider,         \* self._provider_defaults: the key's attribute
    c_instance,         \* self._default_timeout / self._chunk_size_ms
    c_out               \* what _compose_options gave for the key

VARIABLES
    \* the pipeline table of the configuration, and one resolution from it
    n_pc,               \* "idle", "raw", "normalized", "rejected"
    n_given,            \* config_data["pipelines"] as it was loaded
    n_table,            \* config_data["pipelines"] as it is now
    n_error,            \* the message of the error normalization raised
    n_resolution        \* the PipelineResolution last produced

VARIABLES
    \* one call on a resolved pipeline, and the no-op adapters
    b_state,            \* lifecycle state of the call's session
    b_is_tts_only,      \* CallSession.is_tts_only
    b_auto_hangup,      \* ContextConfig.auto_hangup_after_tts
    b_synth,            \* "none", "running", "done"
    b_stt_turns,        \* STT turns performed
    b_llm_turns,        \* LLM turns performed
    b_end_cause,        \* "none", "auto_hangup", "hangup"
    b_closes,           \* per role: "unopened", "open", "closed", "failed"
    b_calls,            \* calls made to the no-op adapters
    b_last              \* the last call made to a no-op adapter

VARIABLES
    \* one ExitARITool.execute, called directly
    x_pc,               \* "idle", "called", "awaiting", "returned", "raised"
    x_parameters,       \* the parameters: a mapping, or something else
    x_context,          \* the ToolExecutionContext
    x_issued,           \* continue_in_dialplan calls issued
    x_outcome,          \* what continue_in_dialplan did ("none": not yet)
    x_result            \* the result returned (NoResult: none)

VARIABLES
    \* one GCalendar instance and the threads calling it
    g_service,          \* self.service is set (the constructor connected)
    g_lock,             \* the thread holding self._lock (0: free)
    g_threads,          \* per thread: its call, where it is, what it has
    g_calls             \* calls started

VARIABLES
    \* one request to a log endpoint of the admin backend
    l_pc,               \* "called", "responded"
    l_endpoint,         \* "logs" or "events"
    l_docker,           \* what each docker call of the request does
    l_response          \* the response (status 0: none yet)

adapter == <<akind, started, a_session, sessions>>
exitari == <<x_pc, x_parameters, x_context, x_issued, x_outcome, x_result>>
\* the groups of the specifications further down
gcal == <<g_service, g_lock, g_threads, g_calls>>
logs == <<l_pc, l_endpoint, l_docker, l_response>>
later == <<exitari, gcal, logs>>
broadcast == <<b_state, b_is_tts_only, b_auto_hangup, b_synth, b_stt_turns,
               b_llm_turns, b_end_cause, b_closes, b_calls, b_last>>
pipelines == <<n_pc, n_given, n_table, n_error, n_resolution>>
compose == <<c_pc, c_kind, c_key, c_runtime, c_pipeline, c_provider,
             c_instance, c_out>>
merge == <<m_pc, m_given, m_defaults, m_pipeline, m_runtime, m_merged>>
codec == <<w_pc, w_pcm, w_rate, w_wav, w_out>>
turn == <<t_pc, t_in, t_ensured, t_posts, t_resp, t_result, t_error,
          t_native, t_decoded, t_source_rate, t_pcm, t_converted, t_chunks>>
callers == <<calls, stop_pc, stop_held, stops, ops>>

session == <<state, transfer_active, transfer_state, transfer_target,
             end_cause, end_after_continue>>
handler == <<hpc, hname, htool, hid, hfarewell, hloc, h_ctx_built,
             h_executed, result, elapsed, farewell_spoken, turns>>
sender == <<spc, send_calls, send_attempts, wire, send_log>>
toolvars == <<session, handler, dialplan, sender>>
\* the helpers and components checked on their own
others == <<codec, merge, compose, pipelines, broadcast, later>>
vars == <<toolvars, adapter, callers, turn, others>>
\* what the tool boundary's actions leave alone
nontool == <<adapter, callers, turn, others>>
\* what the adapter's actions leave alone
nonadapter == <<toolvars, turn, others>>
\* what one operation in detail leaves alone
nonturn == <<toolvars, callers, akind, started, others>>
\* what the codec helpers leave alone
noncodec == <<toolvars, adapter, callers, turn, merge, compose, pipelines,
               broadcast, later>>
\* what the option merge leaves alone
nonmerge == <<toolvars, adapter, callers, turn, codec, compose, pipelines,
               broadcast, later>>
\* what composing options leaves alone
noncompose == <<toolvars, adapter, callers, turn, codec, merge, pipelines,
                 broadcast, later>>
\* what one execute of exit_ari leaves alone
nonexitari == <<toolvars, adapter, callers, turn, codec, merge, compose,
                pipelines, broadcast, gcal, logs>>
\* what the calendar's threads leave alone
nongcal == <<toolvars, adapter, callers, turn, codec, merge, compose,
             pipelines, broadcast, exitari, logs>>
\* what a log request leaves alone
nonlogs == <<toolvars, adapter, callers, turn, codec, merge, compose,
             pipelines, broadcast, exitari, gcal>>
\* what a call and the no-op adapters leave alone
nonbroadcast == <<toolvars, adapter, callers, turn, codec, merge, compose,
                  pipelines, later>>
\* what pipeline normalization and resolution leave alone
nonpipelines == <<toolvars, adapter, callers, turn, codec, merge, compose,
                   broadcast, later>>

\* the call ids sharing one adapter
NumCalls == 2
Calls == 1..NumCalls
NoCall == [op |-> "none", pc |-> "idle", session |-> 0]

\* no adapter is in use
AdapterIdle ==
    /\ akind = "none"
    /\ started = FALSE
    /\ a_session = 0
    /\ sessions = <<>>
CallersIdle ==
    /\ calls = [c \in Calls |-> NoCall]
    /\ stop_pc = "idle"
    /\ stop_held = 0
    /\ stops = 0
    /\ ops = 0

\* values of an operation that has not got that far
NoInput == [audio_len |-> 0, silent |-> FALSE, text |-> "", has_key |-> FALSE,
            output_format |-> "", target_encoding |-> "", target_rate |-> 0,
            chunk_ms |-> 0]
NoBody == [kind |-> "none", len |-> 0, rate |-> 0]
NoResponse == [status |-> 0, body |-> NoBody]
NotReturned == [returned |-> FALSE, text |-> ""]
NoError == [kind |-> "none", status |-> 0, preview_len |-> 0]
NoAudio == [enc |-> "none", rate |-> 0, len |-> 0, via |-> <<>>]

\* no operation has begun
TurnFresh ==
    /\ t_in = NoInput
    /\ t_ensured = FALSE
    /\ t_posts = 0
    /\ t_resp = NoResponse
    /\ t_result = NotReturned
    /\ t_error = NoError
    /\ t_native = "none"
    /\ t_decoded = NoAudio
    /\ t_source_rate = 0
    /\ t_pcm = NoAudio
    /\ t_converted = NoAudio
    /\ t_chunks = <<>>
TurnIdle == t_pc = "idle" /\ TurnFresh

\* values of a WAV encode / decode that has not got that far
NoWav == [nchannels |-> 0, sampwidth |-> 0, framerate |-> 0, data |-> <<>>]
NoFrames == [raises |-> FALSE, frames |-> <<>>, rate |-> 0]

\* no helper is being applied
CodecIdle ==
    /\ w_pc = "idle"
    /\ w_pcm = <<>>
    /\ w_rate = 0
    /\ w_wav = NoWav
    /\ w_out = NoFrames

\* the mapping with no key
EmptyMap == [k \in {} |-> 0]

\* no merge is being made
MergeIdle ==
    /\ m_pc = "idle"
    /\ m_given = <<>>
    /\ m_defaults = EmptyMap
    /\ m_pipeline = EmptyMap
    /\ m_runtime = EmptyMap
    /\ m_merged = EmptyMap

\* a key a mapping does not hold
Absent == "<absent>"
\* nothing composed
NoOption == [raises |-> FALSE, value |-> Absent]

\* no adapter is composing options
ComposeIdle ==
    /\ c_pc = "idle"
    /\ c_kind = "none"
    /\ c_key = "none"
    /\ c_runtime = Absent
    /\ c_pipeline = Absent
    /\ c_provider = Absent
    /\ c_instance = Absent
    /\ c_out = NoOption

\* no pipeline resolved
NoResolution ==
    [name |-> "none", stt_key |-> Absent, llm_key |-> Absent,
     tts_key |-> Absent, is_tts_only |-> FALSE]

\* no configuration loaded
PipelinesIdle ==
    /\ n_pc = "idle"
    /\ n_given = EmptyMap
    /\ n_table = EmptyMap
    /\ n_error = ""
    /\ n_resolution = NoResolution

\* no no-op adapter called
NoNoOpCall == [op |-> "none", input |-> "", out |-> "", suspended |-> FALSE]

\* the roles of a resolved pipeline
Roles == {"stt", "llm", "tts"}

\* no call in progress
BroadcastIdle ==
    /\ b_closes = [role \in Roles |-> "unopened"]
    /\ b_state = "NONE"
    /\ b_is_tts_only = FALSE
    /\ b_auto_hangup = FALSE
    /\ b_synth = "none"
    /\ b_stt_turns = 0
    /\ b_llm_turns = 0
    /\ b_end_cause = "none"
    /\ b_calls = 0
    /\ b_last = NoNoOpCall

\* exit_ari is not being executed
ExitIdle ==
    /\ x_pc = "idle"
    /\ x_parameters = [args_is_mapping |-> FALSE,
                       arguments |-> Params({}, "", "", "", 0)]
    /\ x_context = [ari_client |-> NoneVal, caller_channel_id |-> NoneVal]
    /\ x_issued = 0
    /\ x_outcome = "none"
    /\ x_result = NoResult

\* threads calling one GCalendar instance
NumThreads == 2
Threads == 1..NumThreads
\* pages a listing has at most
MaxPages == 2
\* calendar operations called in one run
MaxCalendarCalls == 3

\* a thread that has called nothing
IdleThread ==
    [op |-> "none", pc |-> "idle", requests |-> 0, items |-> <<>>,
     served |-> <<>>, failed |-> FALSE, raised |-> FALSE,
     result |-> [kind |-> "pending"]]

\* no calendar in use
GCalIdle ==
    /\ g_service = FALSE
    /\ g_lock = 0
    /\ g_threads = [t \in Threads |-> IdleThread]
    /\ g_calls = 0

\* no log request
NoDocker == [from_env |-> "ok", list |-> "none", get |-> "not_found",
             logs |-> "ok"]
NoLogResponse == [status |-> 0, body |-> "none"]
LogsIdle ==
    /\ l_pc = "idle"
    /\ l_endpoint = "logs"
    /\ l_docker = NoDocker
    /\ l_response = NoLogResponse
LaterIdle == ExitIdle /\ GCalIdle /\ LogsIdle
OthersIdle ==
    /\ LaterIdle
    /\ CodecIdle
    /\ MergeIdle
    /\ ComposeIdle
    /\ PipelinesIdle
    /\ BroadcastIdle

\* the tool boundary and the call session before the first event
ToolInit ==

    /\ state = "INITIATING"
    /\ transfer_active = FALSE
    /\ transfer_state = NoneVal
    /\ transfer_target = NoLocation
    /\ end_cause = "none"
    /\ end_after_continue = FALSE
    /\ hpc = "idle"
    /\ hname = NoneVal
    /\ htool = NoneVal
    /\ hid = NoneVal
    /\ hfarewell = ""
    /\ hloc = NoLocation
    /\ h_ctx_built = FALSE
    /\ h_executed = FALSE
    /\ result = NoResult
    /\ elapsed = 0
    /\ farewell_spoken = FALSE
    /\ turns = 0
    /\ dialplan = <<>>
    /\ spc = "idle"
    /\ send_calls = 0
    /\ send_attempts = 0
    /\ wire = <<>>
    /\ send_log = "none"

Init == ToolInit /\ AdapterIdle /\ CallersIdle /\ TurnIdle /\ OthersIdle

\* ----------------------------------------------------------------- actions
\* deepgram.py:89-122  handle_tool_call_event from its entry to its first
\* await (or to its return, when nothing suspends): where the coroutine
\* is then, what it returned, and what it did on the way
Begin(ev, ctx) ==
    LET tool == RegistryGet(ev.name)
        base == [hpc |-> "returned", result |-> NoResult, tool |-> tool,
                 ctx_built |-> FALSE, executed |-> FALSE,
                 farewell |-> "", loc |-> NoLocation,
                 issue |-> FALSE, flag |-> FALSE]
        run  == [base EXCEPT !.ctx_built = TRUE, !.executed = TRUE]
    IN  IF ToolMissing(tool)
        THEN [base EXCEPT !.result = UnknownToolResult(ev.id)]
        ELSE IF ContextKeyError(ctx)
        THEN [base EXCEPT !.hpc = "raised"]
        ELSE CASE tool = "exit_ari" ->
                    LET b == ExitARIBegin(ev, ctx)
                    IN  CASE b.kind = "return" ->
                               [run EXCEPT !.result = WithCallId(b.result, ev.id)]
                          [] b.kind = "raise" ->
                               [run EXCEPT !.result = ExecutionFailedResult(ev.id)]
                          [] OTHER ->
                               [run EXCEPT !.hpc = "await_execute",
                                           !.farewell = b.farewell,
                                           !.loc = b.loc,
                                           !.issue = TRUE]
               [] tool = "transfer_call" ->
                    IF Falsy(ctx.ari_client) \/ Falsy(ctx.caller_channel_id)
                    THEN [run EXCEPT !.result =
                              WithCallId(TransferResult("false", NoLocation), ev.id)]
                    ELSE [run EXCEPT !.hpc = "await_execute",
                                     !.loc = IF ev.args_is_mapping
                                             THEN DialplanLocation(ev.arguments)
                                             ELSE <<default_context,
                                                    default_extension,
                                                    default_priority>>,
                                     !.issue = TRUE, !.flag = TRUE]
               [] tool = "stub_tool" ->
                    [run EXCEPT !.hpc = "await_execute"]
               [] OTHER ->
                    \* tool.execute on None raises inside the try block
                    [base EXCEPT !.ctx_built = TRUE,
                                 !.result = ExecutionFailedResult(ev.id)]

\* the provider delivers a function-call event and the adapter handles it
HandleToolCallEvent(ev, ctx) ==
    /\ state = "ACTIVE"
    /\ hpc \in {"idle", "returned", "raised"}
    /\ spc # "sending"
    /\ turns < MaxTurns
    /\ LET b == Begin(ev, ctx)
       IN  /\ hpc' = b.hpc
           /\ result' = b.result
           /\ htool' = b.tool
           /\ h_ctx_built' = b.ctx_built
           /\ h_executed' = b.executed
           /\ hfarewell' = b.farewell
           /\ hloc' = b.loc
           /\ dialplan' = IF b.issue
                          THEN Append(dialplan, [tool |-> b.tool, location |-> b.loc])
                          ELSE dialplan
           \* session mutator of the transfer discipline (4.3)
           /\ transfer_active' = (transfer_active \/ b.flag)
           /\ transfer_state' = IF b.flag THEN "transferring" ELSE transfer_state
           /\ transfer_target' = IF b.flag THEN b.loc ELSE transfer_target
           /\ state' = IF b.flag THEN "TRANSFERRING" ELSE state
    /\ hname' = ev.name
    /\ hid' = ev.id
    /\ elapsed' = 0
    /\ farewell_spoken' = FALSE
    /\ turns' = turns + 1
    /\ spc' = "idle"
    /\ send_calls' = 0
    /\ send_attempts' = 0
    /\ send_log' = "none"
    /\ UNCHANGED <<end_cause, end_after_continue, wire>>
    /\ UNCHANGED nontool

\* exit_ari.py:149-196  the awaited continue_in_dialplan completes and
\* execute runs to its return; deepgram.py:123-125 returns the result
ExitARICompletes(outcome) ==
    /\ hpc = "await_execute"
    /\ htool = "exit_ari"
    /\ result' = WithCallId(ExitARIResume(outcome, hfarewell, hloc), hid)
    /\ hpc' = "returned"
    \* the coroutine's locals end with it
    /\ hfarewell' = ""
    /\ hloc' = NoLocation
    /\ elapsed' = 0
    /\ UNCHANGED <<session, hname, htool, hid, h_ctx_built,
                   h_executed, farewell_spoken, turns, dialplan,
                   sender>>
    /\ UNCHANGED nontool

\* the transfer tool's continue_in_dialplan completes; a confirmed
\* continuation retires the session (TRANSFERRING -> EXITED)
TransferCallCompletes(outcome) ==
    /\ hpc = "await_execute"
    /\ htool = "transfer_call"
    /\ result' = IF outcome = "raise"
                 THEN ExecutionFailedResult(hid)
                 ELSE WithCallId(TransferResult(outcome, hloc), hid)
    /\ hpc' = "returned"
    \* the coroutine's locals end with it
    /\ hfarewell' = ""
    /\ hloc' = NoLocation
    /\ elapsed' = 0
    /\ IF outcome = "true" /\ state = "TRANSFERRING"
       THEN state' = "EXITED" /\ end_cause' = "confirmed"
       ELSE UNCHANGED <<state, end_cause>>
    /\ UNCHANGED <<transfer_active, transfer_state, transfer_target,
                   end_after_continue, hname, htool, hid,
                   h_ctx_built, h_executed, farewell_spoken, turns,
                   dialplan, sender>>
    /\ UNCHANGED nontool

\* deepgram.py:121-134  an arbitrary tool's execute completes: a result
\* mapping is returned with the event's id; a raised fault, and the
\* AttributeError of result.get on a non-mapping, give the error result
StubToolCompletes(outcome) ==
    /\ hpc = "await_execute"
    /\ htool = "stub_tool"
    /\ result' = IF outcome \in {"raise", "non_mapping"}
                 THEN ExecutionFailedResult(hid)
                 ELSE WithCallId(StubResult(outcome), hid)
    /\ hpc' = "returned"
    \* the coroutine's locals end with it
    /\ hfarewell' = ""
    /\ hloc' = NoLocation
    /\ elapsed' = 0
    /\ UNCHANGED <<session, hname, htool, hid, h_ctx_built,
                   h_executed, farewell_spoken, turns, dialplan,
                   sender>>
    /\ UNCHANGED nontool

\* a second passes while tool.execute is awaited (deepgram.py:122 awaits
\* it without a time limit)
Tick ==
    /\ hpc = "await_execute"
    /\ elapsed < MaxElapsed
    /\ elapsed' = elapsed + 1
    /\ UNCHANGED <<session, hpc, hname, htool, hid, hfarewell, hloc,
                   h_ctx_built, h_executed, result, farewell_spoken, turns,
                   dialplan, sender>>
    /\ UNCHANGED nontool

\* the provider speaks the message of a result that asks for it
\* (exit_ari.py:169 ai_should_speak)
SpeakFarewell ==
    /\ hpc = "returned"
    /\ "ai_should_speak" \in result.keys
    /\ result.ai_should_speak
    /\ ~farewell_spoken
    /\ farewell_spoken' = TRUE
    /\ UNCHANGED <<session, hpc, hname, htool, hid, hfarewell, hloc,
                   h_ctx_built, h_executed, result, elapsed, turns,
                   dialplan, sender>>
    /\ UNCHANGED nontool

\* deepgram.py:157-176  send_tool_result up to its await: no websocket or
\* no function_call_id returns at once; otherwise the response is built
\* and handed to websocket.send
SendToolResult(ws) ==
    /\ hpc = "returned"
    /\ spc \in {"idle", "done"}
    /\ send_calls < MaxSendCalls
    /\ send_calls' = send_calls + 1
    /\ send_log' = "none"
    /\ IF Falsy(ws)
       THEN /\ spc' = "done"
            /\ send_attempts' = 0
            /\ UNCHANGED <<result, wire>>
       ELSE LET function_call_id == PoppedCallId(result)
            IN  /\ result' = AfterPop(result)
                /\ IF Falsy(function_call_id)
                   THEN /\ spc' = "done"
                        /\ send_attempts' = 0
                        /\ UNCHANGED wire
                   ELSE /\ spc' = "sending"
                        /\ send_attempts' = 1
                        /\ wire' = Append(wire,
                               Response(function_call_id, AfterPop(result)))
    /\ UNCHANGED <<session, hpc, hname, htool, hid, hfarewell, hloc,
                   h_ctx_built, h_executed, elapsed, farewell_spoken, turns,
                   dialplan>>
    /\ UNCHANGED nontool

\* deepgram.py:175-179  the awaited websocket.send completes or fails
SendCompletes(ok) ==
    /\ spc = "sending"
    /\ IF ok
       THEN /\ spc' = "done"
            /\ send_log' = "sent"
            /\ UNCHANGED <<send_attempts, wire>>
       ELSE LET a == AfterSendFailure(send_attempts)
            IN  /\ spc' = a.pc
                /\ send_log' = "failed"
                /\ send_attempts' = a.attempts
                /\ wire' = IF a.attempts > send_attempts
                           THEN Append(wire, wire[Len(wire)])
                           ELSE wire
    /\ UNCHANGED <<session, handler, dialplan, send_calls>>
    /\ UNCHANGED nontool

\* INITIATING -> ACTIVE: the pipeline is resolved and every adapter opened
CallStart ==
    /\ state = "INITIATING"
    /\ state' = "ACTIVE"
    /\ UNCHANGED <<transfer_active, transfer_state, transfer_target,
                   end_cause, end_after_continue, handler, dialplan, sender>>
    /\ UNCHANGED nontool

\* ACTIVE -> ENDING: an explicit hangup action
Hangup ==
    /\ state = "ACTIVE"
    /\ state' = "ENDING"
    /\ end_cause' = "hangup"
    /\ UNCHANGED <<transfer_active, transfer_state, transfer_target,
                   end_after_continue, handler, dialplan, sender>>
    /\ UNCHANGED nontool

\* the telephony layer's asynchronous call-end notification: the caller
\* hung up, or control left the application after continue_in_dialplan.
\* The call-end handler checks transfer_active.
CallEndNotification ==
    /\ state \in {"ACTIVE", "TRANSFERRING"}
    /\ state' = CallEndTarget(transfer_active)
    /\ end_cause' = "notification"
    /\ end_after_continue' = (dialplan # <<>>)
    /\ UNCHANGED <<transfer_active, transfer_state, transfer_target,
                   handler, dialplan, sender>>
    /\ UNCHANGED nontool

\* ENDING -> ENDED: adapters closed, session destroyed
Teardown ==
    /\ state = "ENDING"
    /\ state' = "ENDED"
    /\ UNCHANGED <<transfer_active, transfer_state, transfer_target,
                   end_cause, end_after_continue, handler, dialplan, sender>>
    /\ UNCHANGED nontool

Next ==
    \/ \E ev \in Events(turns + 1), ctx \in Contexts : HandleToolCallEvent(ev, ctx)
    \/ \E outcome \in AriOutcomes : ExitARICompletes(outcome)
    \/ \E outcome \in AriOutcomes : TransferCallCompletes(outcome)
    \/ \E outcome \in StubOutcomes : StubToolCompletes(outcome)
    \/ Tick
    \/ SpeakFarewell
    \/ \E ws \in Websockets : SendToolResult(ws)
    \/ \E ok \in BOOLEAN : SendCompletes(ok)
    \/ CallStart
    \/ Hangup
    \/ CallEndNotification
    \/ Teardown

Spec == Init /\ [][Next]_vars

TypeOK ==
    /\ state \in {"INITIATING", "ACTIVE", "TRANSFERRING", "EXITED",
                   "ENDING", "ENDED"}
    /\ transfer_active \in BOOLEAN
    /\ hpc \in {"idle", "await_execute", "returned", "raised"}
    /\ spc \in {"idle", "sending", "done"}
    /\ elapsed \in 0..MaxElapsed
    /\ turns \in 0..MaxTurns
    /\ send_calls \in 0..MaxSendCalls

\* ------------------------------------- Azure adapters: the shared client
\* (AzureSTTFastAdapter, AzureSTTRealtimeAdapter and AzureTTSAdapter carry
\* the same start / stop / open_call / _ensure_session text.)

MaxOps == 3
MaxStops == 2

AdapterKinds == {"azure_stt_fast", "azure_stt_realtime", "azure_tts"}

\* the operation an adapter offers besides open_call
UseOp(kind) == IF kind = "azure_tts" THEN "synthesize" ELSE "transcribe"

\* aiohttp.ClientSession as the factory returns it
NewSession == [closed |-> FALSE]

\* _ensure_session creates a session whatever it holds
NeedsSessionAlways(sess, list) == TRUE

\* _ensure_session: "if self._session and not self._session.closed: return"
NeedsSession(sess, list) == ~(sess # 0 /\ ~list[sess].closed)

\* _ensure_session: the adapter's session and the sessions made, afterwards
EnsureSession(sess, list) ==
    IF NeedsSession(sess, list)
    THEN [session |-> Len(list) + 1, sessions |-> Append(list, NewSession)]
    ELSE [session |-> sess, sessions |-> list]

\* stop() closes nothing
StopMustCloseNever(sess, list) == FALSE

\* stop(): "if self._session and not self._session.closed"
StopMustClose(sess, list) == sess # 0 /\ ~list[sess].closed

\* close_call closes the adapter's session
AfterCloseCallClosing(sess, list) ==
    [session |-> 0,
     sessions |-> IF sess = 0 THEN list
                  ELSE [list EXCEPT ![sess].closed = TRUE]]

\* close_call: "return" - the adapter's session and the sessions made,
\* afterwards
AfterCloseCall(sess, list) == [session |-> sess, sessions |-> list]

\* an operation may begin on call c
CallFree(c) ==
    /\ calls[c].pc \in {"idle", "done", "failed"}
    /\ ops < MaxOps

\* an adapter of some kind is constructed: self._session = None
AdapterInit ==
    /\ ToolInit
    /\ akind \in AdapterKinds
    /\ started = FALSE
    /\ a_session = 0
    /\ sessions = <<>>
    /\ CallersIdle
    /\ TurnIdle
    /\ OthersIdle

\* start(): logs only
Start ==
    /\ ~started
    /\ started' = TRUE
    /\ UNCHANGED <<akind, a_session, sessions, callers, nonadapter>>

\* open_call(call_id, options): await self._ensure_session()
OpenCall(c) ==
    /\ CallFree(c)
    /\ LET e == EnsureSession(a_session, sessions) IN
         /\ a_session' = e.session
         /\ sessions' = e.sessions
         /\ calls' = [calls EXCEPT ![c] =
                [op |-> "open_call", pc |-> "done", session |-> e.session]]
    /\ ops' = ops + 1
    /\ UNCHANGED <<akind, started, stop_pc, stop_held, stops, nonadapter>>

\* close_call(call_id): returns at once
CloseCall(c) ==
    /\ CallFree(c)
    /\ LET a == AfterCloseCall(a_session, sessions) IN
         /\ a_session' = a.session
         /\ sessions' = a.sessions
    /\ calls' = [calls EXCEPT ![c] =
            [op |-> "close_call", pc |-> "done", session |-> 0]]
    /\ ops' = ops + 1
    /\ UNCHANGED <<akind, started, stop_pc, stop_held, stops, nonadapter>>

\* transcribe / synthesize up to the await of the POST: the empty input
\* returns at once, else the session is ensured, the API key checked and the
\* request posted on self._session
UseBegin(c, empty, has_key) ==
    /\ CallFree(c)
    /\ LET e == IF empty
                THEN [session |-> a_session, sessions |-> sessions]
                ELSE EnsureSession(a_session, sessions) IN
         /\ a_session' = e.session
         /\ sessions' = e.sessions
         /\ calls' = [calls EXCEPT ![c] =
                [op |-> UseOp(akind),
                 pc |-> IF empty THEN "done"
                        ELSE IF has_key THEN "posted" ELSE "failed",
                 session |-> IF empty \/ ~has_key THEN 0 ELSE e.session]]
    /\ ops' = ops + 1
    /\ UNCHANGED <<akind, started, stop_pc, stop_held, stops, nonadapter>>

\* the POST completes: a usable response, or an exception out of the call
UseEnd(c, ok) ==
    /\ calls[c].pc = "posted"
    /\ calls' = [calls EXCEPT ![c].pc = IF ok THEN "done" ELSE "failed"]
    /\ UNCHANGED <<adapter, stop_pc, stop_held, stops, ops, nonadapter>>

\* stop() up to "await self._session.close()", or to its end when there is
\* nothing to close; close() marks the session closed before or after it
\* suspends
StopBegin(early) ==
    /\ stop_pc = "idle"
    /\ stops < MaxStops
    /\ IF StopMustClose(a_session, sessions)
       THEN /\ stop_pc' = "closing"
            /\ stop_held' = a_session
            /\ sessions' = [sessions EXCEPT ![a_session].closed = early]
            /\ UNCHANGED <<a_session, stops>>
       ELSE /\ a_session' = 0
            /\ stops' = stops + 1
            /\ UNCHANGED <<sessions, stop_pc, stop_held>>
    /\ UNCHANGED <<akind, started, calls, ops, nonadapter>>

\* stop() after close() returns: "self._session = None"
StopEnd ==
    /\ stop_pc = "closing"
    /\ sessions' = [sessions EXCEPT ![stop_held].closed = TRUE]
    /\ a_session' = 0
    /\ stop_pc' = "idle"
    /\ stop_held' = 0
    /\ stops' = stops + 1
    /\ UNCHANGED <<akind, started, calls, ops, nonadapter>>

AdapterNext ==
    \/ Start
    \/ \E c \in Calls : OpenCall(c)
    \/ \E c \in Calls : CloseCall(c)
    \/ \E c \in Calls, empty \in BOOLEAN, has_key \in BOOLEAN :
            UseBegin(c, empty, has_key)
    \/ \E c \in Calls, ok \in BOOLEAN : UseEnd(c, ok)
    \/ \E early \in BOOLEAN : StopBegin(early)
    \/ StopEnd

SpecAdapter == AdapterInit /\ [][AdapterNext]_vars

AdapterTypeOK ==
    /\ akind \in AdapterKinds
    /\ started \in BOOLEAN
    /\ a_session \in 0..Len(sessions)
    /\ Len(sessions) <= MaxOps
    /\ \A c \in Calls :
          /\ calls[c].op \in {"none", "open_call", "close_call", "transcribe",
                             "synthesize"}
          /\ calls[c].pc \in {"idle", "posted", "done", "failed"}
          /\ calls[c].session \in 0..Len(sessions)
    /\ stop_pc \in {"idle", "closing"}
    /\ stop_held \in 0..Len(sessions)
    /\ stops \in 0..MaxStops
    /\ ops \in 0..MaxOps

\* --------------------------------------- Azure STT: one transcribe call

STTKinds == {"azure_stt_fast", "azure_stt_realtime"}

\* audio_pcm16 arguments: by length, and whether every byte is zero
SilenceLen == 3200
AudioInputs ==
    { [len |-> 0, silent |-> FALSE],
      [len |-> SilenceLen, silent |-> TRUE],
      [len |-> SilenceLen, silent |-> FALSE] }

\* the response bodies the STT endpoint is given to send:
\*   combined     {"combinedPhrases": [{"text": "hello"}]}
\*   phrases      {"phrases": [{"text": "hello"}]}
\*   display      {"RecognitionStatus": "Success", "DisplayText": "hello"}
\*   empty_object {}
\*   not_object   []
\*   not_json     <html>Service Unavailable</html>, cut or padded to len
TextBody(kind, len) == [kind |-> kind, len |-> len, rate |-> 0]
ShortBody == 40
LongBody == 300
STTResponses ==
    { [status |-> 200, body |-> TextBody(k, ShortBody)] :
        k \in {"combined", "phrases", "display", "empty_object",
               "not_object", "not_json"} }
    \cup { [status |-> 204, body |-> TextBody("not_json", 0)],
           [status |-> 101, body |-> TextBody("not_json", ShortBody)],
           [status |-> 304, body |-> TextBody("not_json", ShortBody)],
           [status |-> 404, body |-> TextBody("not_json", ShortBody)],
           [status |-> 503, body |-> TextBody("not_json", LongBody)] }

\* transcribe treats no audio as empty
AudioEmptyNever(audio) == FALSE

\* transcribe: "if not audio_pcm16"
AudioEmpty(audio) == audio.len = 0

\* transcribe / synthesize: "if resp.status >= 400"
StatusIsFailure(status) == status >= 400

\* the error message carries "body_text[:256]"
BodyPreviewMax == 256
BodyPreview(len) == IF len < BodyPreviewMax THEN len ELSE BodyPreviewMax

\* payload.decode("utf-8", errors="ignore").strip() of a body that is not JSON
RawBodyText(body) == IF body.len = 0 THEN "" ELSE "<raw body>"

\* _parse_transcript: what it returns, or that it raises (.get on a value
\* that is no mapping)
ParseTranscript(kind, body) ==
    IF body.kind = "not_json"
    THEN [raises |-> FALSE, text |-> RawBodyText(body)]
    ELSE IF body.kind = "not_object"
    THEN [raises |-> TRUE, text |-> ""]
    ELSE IF kind = "azure_stt_fast"
    THEN [raises |-> FALSE,
          text |-> IF body.kind \in {"combined", "phrases"}
                   THEN "hello" ELSE ""]
    ELSE [raises |-> FALSE,
          text |-> IF body.kind = "display" THEN "hello" ELSE ""]

\* an adapter is constructed and one operation is about to be called on it
TurnInit ==
    /\ ToolInit
    /\ CallersIdle
    /\ akind \in AdapterKinds
    /\ started = FALSE
    /\ a_session = 0
    /\ sessions = <<>>
    /\ t_pc = "ready"
    /\ TurnFresh
    /\ OthersIdle

\* transcribe(call_id, audio_pcm16, sample_rate_hz, options) to the await of
\* the POST
Transcribe(audio, has_key) ==
    /\ t_pc = "ready"
    /\ akind \in STTKinds
    /\ t_in' = [NoInput EXCEPT !.audio_len = audio.len,
                               !.silent = audio.silent,
                               !.has_key = has_key]
    /\ IF AudioEmpty(audio)
       THEN /\ t_pc' = "done"
            /\ t_result' = [returned |-> TRUE, text |-> ""]
            /\ UNCHANGED <<a_session, sessions, t_ensured, t_posts, t_error>>
       ELSE LET e == EnsureSession(a_session, sessions) IN
            /\ a_session' = e.session
            /\ sessions' = e.sessions
            /\ t_ensured' = TRUE
            /\ IF has_key
               THEN /\ t_pc' = "posted"
                    /\ t_posts' = t_posts + 1
                    /\ UNCHANGED t_error
               ELSE /\ t_pc' = "failed"
                    /\ t_error' = [NoError EXCEPT !.kind = "no_api_key"]
                    /\ UNCHANGED t_posts
            /\ UNCHANGED t_result
    /\ UNCHANGED <<t_resp, t_native, t_decoded, t_source_rate, t_pcm, t_converted, t_chunks, nonturn>>

\* transcribe from "raw = await resp.read()" to its return or raise
TranscribeResponse(resp) ==
    /\ t_pc = "posted"
    /\ akind \in STTKinds
    /\ t_resp' = resp
    /\ IF StatusIsFailure(resp.status)
       THEN /\ t_pc' = "failed"
            /\ t_error' = [kind |-> "http_status", status |-> resp.status,
                           preview_len |-> BodyPreview(resp.body.len)]
            /\ UNCHANGED t_result
       ELSE LET p == ParseTranscript(akind, resp.body) IN
            IF p.raises
            THEN /\ t_pc' = "failed"
                 /\ t_error' = [NoError EXCEPT !.kind = "parse"]
                 /\ UNCHANGED t_result
            ELSE /\ t_pc' = "done"
                 /\ t_result' = [returned |-> TRUE, text |-> p.text]
                 /\ UNCHANGED t_error
    /\ UNCHANGED <<a_session, sessions, t_in, t_ensured, t_posts,
                   t_native, t_decoded, t_source_rate, t_pcm, t_converted, t_chunks, nonturn>>

\* the POST or the read raises (connection error, timeout): it propagates
RequestFails ==
    /\ t_pc = "posted"
    /\ t_pc' = "failed"
    /\ t_error' = [NoError EXCEPT !.kind = "request"]
    /\ UNCHANGED <<a_session, sessions, t_in, t_ensured, t_posts, t_resp,
                   t_result, t_native, t_decoded, t_source_rate, t_pcm, t_converted, t_chunks, nonturn>>

\* ---------------------------------------- Azure TTS: one synthesize call

MaxAudioLen == 500

\* _AZURE_FORMAT_INFO: output_format -> (native encoding, RIFF-wrapped)
KnownFormats ==
    {"raw-8khz-8bit-mono-mulaw", "raw-8khz-8bit-mono-alaw",
     "raw-8khz-16bit-mono-pcm", "raw-16khz-16bit-mono-pcm",
     "raw-24khz-16bit-mono-pcm", "riff-8khz-16bit-mono-pcm",
     "riff-16khz-16bit-mono-pcm", "riff-24khz-16bit-mono-pcm"}
AzureFormatInfo(fmt) ==
    CASE fmt = "raw-8khz-8bit-mono-mulaw" -> [native |-> "mulaw", riff |-> FALSE]
      [] fmt = "raw-8khz-8bit-mono-alaw" -> [native |-> "alaw", riff |-> FALSE]
      [] fmt \in {"raw-8khz-16bit-mono-pcm", "raw-16khz-16bit-mono-pcm",
                  "raw-24khz-16bit-mono-pcm"}
            -> [native |-> "pcm16", riff |-> FALSE]
      [] OTHER -> [native |-> "pcm16", riff |-> TRUE]

\* formats the table does not list: an MP3 stream, and a RIFF format
OtherFormats == {"audio-16khz-32kbitrate-mono-mp3", "riff-48khz-16bit-mono-pcm"}
OutputFormats == KnownFormats \cup OtherFormats

\* _decode_tts_audio: the rate read off a raw PCM format name
FormatNameRate(fmt) ==
    CASE fmt \in {"raw-8khz-16bit-mono-pcm", "riff-8khz-16bit-mono-pcm",
                  "raw-8khz-8bit-mono-mulaw", "raw-8khz-8bit-mono-alaw"}
            -> 8000
      [] fmt \in {"raw-24khz-16bit-mono-pcm", "riff-24khz-16bit-mono-pcm"}
            -> 24000
      [] OTHER -> 16000

\* what the endpoint sends for a requested output_format: len bytes of audio
\* in that format (for RIFF, len bytes of frames behind a WAV header)
ProviderAudio(fmt, len) ==
    CASE fmt = "raw-8khz-8bit-mono-mulaw"
            -> [kind |-> "mulaw", len |-> len, rate |-> 8000]
      [] fmt = "raw-8khz-8bit-mono-alaw"
            -> [kind |-> "alaw", len |-> len, rate |-> 8000]
      [] fmt \in {"raw-8khz-16bit-mono-pcm", "raw-16khz-16bit-mono-pcm",
                  "raw-24khz-16bit-mono-pcm"}
            -> [kind |-> "pcm16", len |-> len, rate |-> FormatNameRate(fmt)]
      [] fmt = "audio-16khz-32kbitrate-mono-mp3"
            -> [kind |-> "mp3", len |-> len, rate |-> 16000]
      [] fmt = "riff-48khz-16bit-mono-pcm"
            -> [kind |-> "wav", len |-> len, rate |-> 48000]
      [] OTHER -> [kind |-> "wav", len |-> len, rate |-> FormatNameRate(fmt)]

AudioLens == {0, MaxAudioLen}
TTSResponses(fmt) ==
    { [status |-> 200, body |-> ProviderAudio(fmt, n)] : n \in AudioLens }
    \cup { [status |-> 200, body |-> TextBody("not_json", ShortBody)],
           [status |-> 503, body |-> TextBody("not_json", LongBody)] }
AllTTSResponses == UNION { TTSResponses(fmt) : fmt \in OutputFormats }

Texts == {"", "hello"}
TargetEncodings == {"mulaw", "pcm16"}
TargetRates == {8000, 24000}
ChunkSizes == {-20, 0, 9, 20}

\* synthesize treats no text as empty
TextEmptyNever(text) == FALSE

\* synthesize: "if not text"
TextEmpty(text) == text = ""

\* the bytes of a response body as they are: their real encoding and rate
BodyBytes(body) ==
    [enc |-> body.kind, rate |-> body.rate, len |-> body.len, via |-> <<>>]

\* _wav_to_pcm16le: the frames and rate of a WAV container, or it raises
WavToPcm16le(body) ==
    IF body.kind = "wav"
    THEN [raises |-> FALSE,
          bytes |-> [enc |-> "pcm16", rate |-> body.rate,
                     len |-> 2 * (body.len \div 2), via |-> <<"wav">>],
          rate |-> body.rate]
    ELSE [raises |-> TRUE, bytes |-> NoAudio, rate |-> 0]

Decoded(bytes, rate, native) ==
    [raises |-> FALSE, bytes |-> bytes, source_rate |-> rate,
     native_encoding |-> native]

DecodeRaises ==
    [raises |-> TRUE, bytes |-> NoAudio, source_rate |-> 0,
     native_encoding |-> "none"]

\* _decode_tts_audio for a RIFF format of the table: a WAV decode, else it
\* raises RuntimeError
DecodeRiff(body) ==
    LET w == WavToPcm16le(body) IN
    IF w.raises THEN DecodeRaises ELSE Decoded(w.bytes, w.rate, "pcm16")

\* a format outside the table that does not decode as WAV raises
DecodeUnknownRaising(body) ==
    LET w == WavToPcm16le(body) IN
    IF w.raises THEN DecodeRaises ELSE Decoded(w.bytes, w.rate, "pcm16")

\* _decode_tts_audio for a format outside the table: a WAV decode, else the
\* bytes as they are at 8000 tagged "unknown"
DecodeUnknown(body) ==
    LET w == WavToPcm16le(body) IN
    IF w.raises
    THEN Decoded(BodyBytes(body), 8000, "unknown")
    ELSE Decoded(w.bytes, w.rate, "pcm16")

\* _decode_tts_audio(raw_bytes, output_format)
DecodeTTSAudio(body, fmt) ==
    IF fmt \notin KnownFormats
    THEN DecodeUnknown(body)
    ELSE LET info == AzureFormatInfo(fmt) IN
         IF info.native = "mulaw" THEN Decoded(BodyBytes(body), 8000, "mulaw")
         ELSE IF info.native = "alaw"
         THEN Decoded(BodyBytes(body), 8000, "alaw")
         ELSE IF info.riff THEN DecodeRiff(body)
         ELSE Decoded(BodyBytes(body), FormatNameRate(fmt), "pcm16")

\* resample_audio(pcm16, source_rate, target_rate): PCM16 at the target rate
ResampleAudio(a, source_rate, target_rate) ==
    [enc |-> a.enc,
     rate |-> (a.rate * target_rate) \div source_rate,
     len |-> 2 * (((a.len \div 2) * target_rate) \div source_rate),
     via |-> Append(a.via, "resample")]

\* convert_pcm16le_to_target_format(pcm16, target_encoding)
ConvertPcm16leToTargetFormat(a, target_encoding) ==
    IF target_encoding \in {"mulaw", "ulaw"}
    THEN [enc |-> "mulaw", rate |-> a.rate, len |-> a.len \div 2,
          via |-> Append(a.via, "mulaw")]
    ELSE a

\* synthesize resamples whatever the rates
NeedsResampleAlways(source_rate, target_rate) == TRUE

\* synthesize: "if source_rate != target_rate"
NeedsResample(source_rate, target_rate) == source_rate # target_rate

\* synthesize: the PCM16 it hands to convert_pcm16le_to_target_format
PcmForTarget(d, target_rate) ==
    IF NeedsResample(d.source_rate, target_rate)
    THEN ResampleAudio(d.bytes, d.source_rate, target_rate)
    ELSE d.bytes

\* synthesize: from the decoded audio to the bytes it chunks
Converted(d, target_encoding, target_rate) ==
    IF d.native_encoding = "mulaw" /\ target_encoding = "mulaw"
    THEN d.bytes
    ELSE IF d.native_encoding \in {"pcm16", "pcm"}
    THEN ConvertPcm16leToTargetFormat(PcmForTarget(d, target_rate),
                                      target_encoding)
    ELSE d.bytes

\* _bytes_per_sample(encoding)
BytesPerSample(encoding) ==
    IF encoding \in {"ulaw", "mulaw", "mu-law", "alaw"} THEN 1 ELSE 2

\* sample_rate * (chunk_ms / 1000.0) is a product of doubles: for these
\* arguments, of the ones drawn here, it falls just below the whole number
\* (24000 * 0.009 = 215.99999999999997), and int() then cuts a byte off
DoubleRoundsBelow(sample_rate, chunk_ms) ==
    sample_rate = 24000 /\ chunk_ms \in {9, 18, 36}

\* int(sample_rate * (chunk_ms / 1000.0) * bytes_per_sample)
IntOfProduct(sample_rate, chunk_ms, bps) ==
    IF chunk_ms = 0 THEN 0
    ELSE IF chunk_ms < 0
    THEN 0 - ((sample_rate * (0 - chunk_ms) * bps) \div 1000)
    ELSE IF DoubleRoundsBelow(sample_rate, chunk_ms)
    THEN ((sample_rate * chunk_ms * bps) \div 1000) - 1
    ELSE (sample_rate * chunk_ms * bps) \div 1000

\* _chunk_audio: frame_size = max(bytes_per_sample, int(...))
FrameSize(encoding, sample_rate, chunk_ms) ==
    LET bps == BytesPerSample(encoding)
        n == IntOfProduct(sample_rate, chunk_ms, bps)
    IN IF n > bps THEN n ELSE bps

\* _chunk_audio: audio_bytes[idx : idx + frame_size], as a slice of the
\* converted audio, for the idx after k chunks
ChunkAt(len, frame, k) ==
    [lo |-> k * frame,
     hi |-> IF k * frame + frame < len THEN k * frame + frame ELSE len]

\* _chunk_audio has a chunk left after k chunks
HasChunk(len, frame, k) == k * frame < len

\* synthesize(call_id, text, options) to the await of the POST; the merged
\* options are output_format, target_encoding, target_sample_rate_hz and
\* chunk_size_ms
Synthesize(text, has_key, fmt, enc, rate, ms) ==
    /\ t_pc = "ready"
    /\ akind = "azure_tts"
    /\ t_in' = [NoInput EXCEPT !.text = text, !.has_key = has_key,
                               !.output_format = fmt,
                               !.target_encoding = enc,
                               !.target_rate = rate, !.chunk_ms = ms]
    /\ IF TextEmpty(text)
       THEN /\ t_pc' = "done"
            /\ UNCHANGED <<a_session, sessions, t_ensured, t_posts, t_error>>
       ELSE LET e == EnsureSession(a_session, sessions) IN
            /\ a_session' = e.session
            /\ sessions' = e.sessions
            /\ t_ensured' = TRUE
            /\ IF has_key
               THEN /\ t_pc' = "posted"
                    /\ t_posts' = t_posts + 1
                    /\ UNCHANGED t_error
               ELSE /\ t_pc' = "failed"
                    /\ t_error' = [NoError EXCEPT !.kind = "no_api_key"]
                    /\ UNCHANGED t_posts
    /\ UNCHANGED <<t_resp, t_result, t_native, t_decoded, t_source_rate, t_pcm, t_converted, t_chunks, nonturn>>

\* synthesize from "raw = await resp.read()" to its first yield, its end or
\* its raise
SynthesizeResponse(resp) ==
    /\ t_pc = "posted"
    /\ akind = "azure_tts"
    /\ resp \in TTSResponses(t_in.output_format)
    /\ t_resp' = resp
    /\ IF StatusIsFailure(resp.status)
       THEN /\ t_pc' = "failed"
            /\ t_error' = [kind |-> "http_status", status |-> resp.status,
                           preview_len |-> BodyPreview(resp.body.len)]
            /\ UNCHANGED <<t_native, t_decoded, t_source_rate, t_pcm, t_converted, t_chunks>>
       ELSE LET d == DecodeTTSAudio(resp.body, t_in.output_format) IN
            IF d.raises
            THEN /\ t_pc' = "failed"
                 /\ t_error' = [NoError EXCEPT !.kind = "decode"]
                 /\ UNCHANGED <<t_native, t_decoded, t_source_rate, t_pcm, t_converted, t_chunks>>
            ELSE LET c == Converted(d, t_in.target_encoding, t_in.target_rate)
                     frame == FrameSize(t_in.target_encoding,
                                        t_in.target_rate, t_in.chunk_ms)
                 IN /\ t_native' = d.native_encoding
                    /\ t_decoded' = d.bytes
                    /\ t_source_rate' = d.source_rate
                    /\ t_pcm' = IF d.native_encoding \in {"pcm16", "pcm"}
                                THEN PcmForTarget(d, t_in.target_rate)
                                ELSE NoAudio
                    /\ t_converted' = c
                    /\ IF HasChunk(c.len, frame, 0)
                       THEN /\ t_pc' = "streaming"
                            /\ t_chunks' = <<ChunkAt(c.len, frame, 0)>>
                       ELSE /\ t_pc' = "done"
                            /\ UNCHANGED t_chunks
                    /\ UNCHANGED t_error
    /\ UNCHANGED <<a_session, sessions, t_in, t_ensured, t_posts, t_result,
                   nonturn>>

\* the consumer asks for the next chunk: the loop over _chunk_audio yields
\* it, or the generator ends
YieldChunk ==
    /\ t_pc = "streaming"
    /\ LET frame == FrameSize(t_in.target_encoding, t_in.target_rate,
                              t_in.chunk_ms)
           k == Len(t_chunks)
       IN IF HasChunk(t_converted.len, frame, k)
          THEN /\ t_chunks' = Append(t_chunks,
                                     ChunkAt(t_converted.len, frame, k))
               /\ UNCHANGED t_pc
          ELSE /\ t_pc' = "done"
               /\ UNCHANGED t_chunks
    /\ UNCHANGED <<a_session, sessions, t_in, t_ensured, t_posts, t_resp,
                   t_result, t_error, t_native, t_decoded, t_source_rate, t_pcm, t_converted, nonturn>>

TurnNext ==
    \/ \E audio \in AudioInputs, has_key \in BOOLEAN :
            Transcribe(audio, has_key)
    \/ \E resp \in STTResponses : TranscribeResponse(resp)
    \/ \E text \in Texts, has_key \in BOOLEAN, fmt \in OutputFormats,
          enc \in TargetEncodings, rate \in TargetRates, ms \in ChunkSizes :
            Synthesize(text, has_key, fmt, enc, rate, ms)
    \/ \E resp \in AllTTSResponses : SynthesizeResponse(resp)
    \/ YieldChunk
    \/ RequestFails

SpecTurn == TurnInit /\ [][TurnNext]_vars

TurnTypeOK ==
    /\ akind \in AdapterKinds
    /\ a_session \in 0..Len(sessions)
    /\ Len(sessions) <= 1
    /\ t_pc \in {"ready", "posted", "streaming", "done", "failed"}
    /\ t_ensured \in BOOLEAN
    /\ t_posts \in 0..1
    /\ t_result.returned \in BOOLEAN
    /\ t_error.kind \in {"none", "no_api_key", "http_status", "parse",
                         "decode", "request"}
    /\ t_native \in {"none", "mulaw", "alaw", "pcm16", "unknown"}
    /\ t_converted.len >= 0
    /\ \A i \in 1..Len(t_chunks) : t_chunks[i].lo < t_chunks[i].hi

\* ------------------------------------------- WAV container round trip

MaxPcmLen == 4

\* byte values, and every byte string up to the bound
Bytes == {0, 255}
PcmInputs == UNION { [1..n -> Bytes] : n \in 0..MaxPcmLen }
SampleRates == {8000, 16000, 44100}

\* _pcm16le_to_wav: a mono, 2-byte-wide container at the rate, whose data
\* chunk is the bytes as they were given
Pcm16leToWav(audio_pcm16, sample_rate_hz) ==
    [nchannels |-> 1, sampwidth |-> 2, framerate |-> sample_rate_hz,
     data |-> audio_pcm16]

\* wave: getnframes() is the data chunk's size in whole frames
GetNFrames(wav) == Len(wav.data) \div (wav.nchannels * wav.sampwidth)

\* wave: readframes(n) reads n whole frames of the data chunk
ReadFrames(wav, n) == SubSeq(wav.data, 1, n * wav.nchannels * wav.sampwidth)

\* _wav_to_pcm16le on a container wave.open accepts
WavFramesAndRate(wav) ==
    [raises |-> FALSE, frames |-> ReadFrames(wav, GetNFrames(wav)),
     rate |-> wav.framerate]

\* some PCM16 bytes and a rate are about to be wrapped
CodecInit ==
    /\ ToolInit
    /\ LaterIdle
    /\ AdapterIdle
    /\ CallersIdle
    /\ TurnIdle
    /\ MergeIdle
    /\ ComposeIdle
    /\ PipelinesIdle
    /\ BroadcastIdle
    /\ w_pc = "input"
    /\ w_pcm \in PcmInputs
    /\ w_rate \in SampleRates
    /\ w_wav = NoWav
    /\ w_out = NoFrames

\* wav_bytes = _pcm16le_to_wav(audio_pcm16, sample_rate_hz)
EncodeWav ==
    /\ w_pc = "input"
    /\ w_wav' = Pcm16leToWav(w_pcm, w_rate)
    /\ w_pc' = "encoded"
    /\ UNCHANGED <<w_pcm, w_rate, w_out, noncodec>>

\* frames, rate = _wav_to_pcm16le(wav_bytes)
DecodeWav ==
    /\ w_pc = "encoded"
    /\ w_out' = WavFramesAndRate(w_wav)
    /\ w_pc' = "decoded"
    /\ UNCHANGED <<w_pcm, w_rate, w_wav, noncodec>>

CodecNext == EncodeWav \/ DecodeWav

SpecCodec == CodecInit /\ [][CodecNext]_vars

CodecTypeOK ==
    /\ w_pc \in {"input", "encoded", "decoded"}
    /\ w_pcm \in PcmInputs
    /\ w_rate \in SampleRates
    /\ Len(w_out.frames) <= MaxPcmLen

\* ------------------------------------------------------ _merge_dicts

\* option values: a number, None, or a nested mapping
IntVal(n) == [t |-> "int", v |-> n]
NoneOption == [t |-> "none"]
DictVal(d) == [t |-> "dict", d |-> d]
IsDict(value) == value.t = "dict"

\* the mappings merged: those of the three-level example, and ones with a
\* None, with a number over a mapping, with a mapping over a number
OptionMaps ==
    { EmptyMap,
      [a |-> IntVal(1), b |-> DictVal([x |-> IntVal(1)])],
      [b |-> DictVal([y |-> IntVal(2)])],
      [b |-> DictVal([x |-> IntVal(9)])],
      [a |-> NoneOption, b |-> DictVal([x |-> NoneOption, y |-> IntVal(3)])],
      [b |-> NoneOption],
      [a |-> DictVal([x |-> IntVal(4)]), b |-> IntVal(5)],
      [b |-> DictVal(EmptyMap)] }

RECURSIVE MergeDicts(_, _)

\* a mapping over a mapping replaces it whole
MergeNestedReplacing(old, value) == value

\* _merge_dicts: "merged[key] = _merge_dicts(merged[key], value)"
MergeNested(old, value) == DictVal(MergeDicts(old.d, value.d))

\* _merge_dicts(base, override): a copy of base in which each key of override
\* is merged when both values are mappings, and assigned when its value is
\* not None
MergeDicts(base, override) ==
    [key \in DOMAIN base
              \cup {k \in DOMAIN override : override[k] # NoneOption} |->
        IF key \notin DOMAIN override THEN base[key]
        ELSE LET value == override[key] IN
             IF key \in DOMAIN base /\ IsDict(value) /\ IsDict(base[key])
             THEN MergeNested(base[key], value)
             ELSE IF value # NoneOption THEN value
             ELSE base[key]]

\* _merge_dicts: "merged = dict(base or {})" - every assignment goes to the
\* copy, and the recursive call copies the nested mapping in turn, so the
\* mapping passed as base is afterwards what it was
BaseAfterMerge(base, override) == base

\* three mappings are about to be merged, lowest precedence first
MergeInit ==
    /\ ToolInit
    /\ LaterIdle
    /\ AdapterIdle
    /\ CallersIdle
    /\ TurnIdle
    /\ CodecIdle
    /\ ComposeIdle
    /\ PipelinesIdle
    /\ BroadcastIdle
    /\ m_pc = "input"
    /\ m_defaults \in OptionMaps
    /\ m_pipeline \in OptionMaps
    /\ m_runtime \in OptionMaps
    /\ m_given = <<m_defaults, m_pipeline, m_runtime>>
    /\ m_merged = EmptyMap

\* merged = _merge_dicts(defaults, pipeline_options)
MergePipelineOptions ==
    /\ m_pc = "input"
    /\ m_merged' = MergeDicts(m_defaults, m_pipeline)
    /\ m_defaults' = BaseAfterMerge(m_defaults, m_pipeline)
    /\ m_pc' = "pipeline_merged"
    /\ UNCHANGED <<m_given, m_pipeline, m_runtime, nonmerge>>

\* merged = _merge_dicts(merged, runtime_options)
MergeRuntimeOptions ==
    /\ m_pc = "pipeline_merged"
    /\ m_merged' = MergeDicts(m_merged, m_runtime)
    /\ m_pc' = "merged"
    /\ UNCHANGED <<m_given, m_defaults, m_pipeline, m_runtime, nonmerge>>

MergeNext == MergePipelineOptions \/ MergeRuntimeOptions

SpecMerge == MergeInit /\ [][MergeNext]_vars

MergeTypeOK ==
    /\ m_pc \in {"input", "pipeline_merged", "merged"}
    /\ m_given[1] \in OptionMaps
    /\ m_given[2] \in OptionMaps
    /\ m_given[3] \in OptionMaps
    /\ DOMAIN m_merged \subseteq {"a", "b"}

\* --------------------------------------------------- _compose_options

\* the keys each adapter's _compose_options builds
ComposedKeys(kind) ==
    CASE kind = "azure_stt_fast" ->
            {"api_key", "region", "fast_stt_base_url", "language",
             "request_timeout_sec"}
      [] kind = "azure_stt_realtime" ->
            {"api_key", "region", "realtime_stt_base_url", "language",
             "request_timeout_sec"}
      [] kind = "azure_tts" ->
            {"api_key", "region", "tts_base_url", "voice_name", "language",
             "output_format", "target_encoding", "target_sample_rate_hz",
             "chunk_size_ms", "request_timeout_sec"}

\* the values a level holds for a key: none, None, or its own concrete value
RuntimeValues == {Absent, NoneVal, "runtime-value"}
PipelineValues == {Absent, NoneVal, "pipeline-value"}
ProviderValue == "provider-value"

\* mapping.get(key, default), v being the mapping's value for the key
DictGet(v, default) == IF v = Absent THEN default ELSE v

\* the conversion _compose_options wraps the key's value in
Coercion(kind, key) ==
    IF key = "request_timeout_sec" THEN "float"
    ELSE IF kind = "azure_tts"
            /\ key \in {"target_sample_rate_hz", "chunk_size_ms"} THEN "int"
    ELSE "none"

\* int(v) / float(v): a number converts, None raises TypeError
Coerce(conversion, v) ==
    IF conversion # "none" /\ v = NoneVal
    THEN [raises |-> TRUE, value |-> Absent]
    ELSE [raises |-> FALSE, value |-> v]

\* the key whose default __init__ computes and keeps on the instance
InstanceKey(kind) ==
    IF kind = "azure_tts" THEN "chunk_size_ms" ELSE "request_timeout_sec"

\* __init__: float(pipeline.get("request_timeout_sec", provider default)) /
\* int(pipeline.get("chunk_size_ms", provider default))
InstanceDefault(kind, pipeline, provider) ==
    Coerce(Coercion(kind, InstanceKey(kind)), DictGet(pipeline, provider))

\* the innermost default of the key's .get chain
LowestLevel(kind, key, provider, instance) ==
    IF kind = "azure_tts" /\ key = "language" THEN ""
    ELSE IF kind = "azure_tts" /\ key = "request_timeout_sec" THEN provider
    ELSE IF key = InstanceKey(kind) THEN instance
    ELSE provider

\* _compose_options, for one key:
\* runtime_options.get(key, self._pipeline_defaults.get(key, default))
ComposeOption(kind, key, runtime, pipeline, lowest) ==
    Coerce(Coercion(kind, key), DictGet(runtime, DictGet(pipeline, lowest)))

\* an adapter with pipeline options is about to be built, and later asked
\* to compose runtime options
ComposeInit ==
    /\ ToolInit
    /\ LaterIdle
    /\ AdapterIdle
    /\ CallersIdle
    /\ TurnIdle
    /\ CodecIdle
    /\ MergeIdle
    /\ PipelinesIdle
    /\ BroadcastIdle
    /\ c_pc = "configured"
    /\ c_kind \in AdapterKinds
    /\ c_key \in ComposedKeys(c_kind)
    /\ c_runtime \in RuntimeValues
    /\ c_pipeline \in PipelineValues
    /\ c_provider = ProviderValue
    /\ c_instance = Absent
    /\ c_out = NoOption

\* __init__ keeps the pipeline options and computes the instance default
Construct ==
    /\ c_pc = "configured"
    /\ c_key # InstanceKey(c_kind)
        \/ ~InstanceDefault(c_kind, c_pipeline, c_provider).raises
    /\ c_instance' = IF c_key = InstanceKey(c_kind)
                     THEN InstanceDefault(c_kind, c_pipeline, c_provider).value
                     ELSE ProviderValue
    /\ c_pc' = "constructed"
    /\ UNCHANGED <<c_kind, c_key, c_runtime, c_pipeline, c_provider, c_out,
                   noncompose>>

\* __init__ raises TypeError: the pipeline declares the instance key as None
ConstructFails ==
    /\ c_pc = "configured"
    /\ c_key = InstanceKey(c_kind)
    /\ InstanceDefault(c_kind, c_pipeline, c_provider).raises
    /\ c_out' = [raises |-> TRUE, value |-> Absent]
    /\ c_pc' = "failed"
    /\ UNCHANGED <<c_kind, c_key, c_runtime, c_pipeline, c_provider,
                   c_instance, noncompose>>

\* merged = self._compose_options(options)
Compose ==
    /\ c_pc = "constructed"
    /\ c_out' = ComposeOption(c_kind, c_key, c_runtime, c_pipeline,
                    LowestLevel(c_kind, c_key, c_provider, c_instance))
    /\ c_pc' = IF c_out'.raises THEN "failed" ELSE "composed"
    /\ UNCHANGED <<c_kind, c_key, c_runtime, c_pipeline, c_provider,
                   c_instance, noncompose>>

ComposeNext == Construct \/ ConstructFails \/ Compose

SpecCompose == ComposeInit /\ [][ComposeNext]_vars

ComposeTypeOK ==
    /\ c_pc \in {"configured", "constructed", "composed", "failed"}
    /\ c_kind \in AdapterKinds
    /\ c_key \in ComposedKeys(c_kind)
    /\ c_runtime \in RuntimeValues
    /\ c_pipeline \in PipelineValues
    /\ c_out.raises = (c_pc = "failed")
    /\ c_out.value \in {Absent, NoneVal, "", "runtime-value",
                        "pipeline-value", "provider-value"}

\* with no None among the values, the key takes the runtime value when the
\* runtime options hold it, else the pipeline value when the pipeline
\* options hold it, else the innermost default
ComposeFollowsGetChain ==
    (c_pc \in {"composed", "failed"}
        /\ c_runtime # NoneVal /\ c_pipeline # NoneVal) =>
        /\ c_pc = "composed"
        /\ c_out.value =
            IF c_runtime # Absent THEN c_runtime
            ELSE IF c_pipeline # Absent THEN c_pipeline
            ELSE IF c_kind = "azure_tts" /\ c_key = "language" THEN ""
            ELSE c_provider

\* ------------------------------------- pipeline normalization, resolution

PipelineNames == {"broadcast", "support"}

\* a pipeline entry as the configuration declares it: a standard entry (type
\* "standard" or none) names its three components; a tts_only entry may name
\* any of them
StandardEntries ==
    [type : {Absent, "standard"}, stt : {"openai_stt"}, llm : {"openai_llm"},
     tts : {"openai_tts"}, options : {Absent, "voice-nova"}]
TtsOnlyEntries ==
    [type : {"tts_only"}, stt : {Absent, "openai_stt"},
     llm : {Absent, "openai_llm"}, tts : {Absent, "openai_tts"},
     options : {Absent, "voice-nova"}]
RawEntries == StandardEntries \cup TtsOnlyEntries

\* the pipeline tables a configuration may hold
RawTables ==
    UNION { [names -> RawEntries] : names \in SUBSET PipelineNames \ {{}} }

\* the entry's type is tts_only
IsTtsOnly(entry) == entry.type = "tts_only"

\* no entry is ever found lacking
MissingTTSNever(entry) == FALSE

\* a tts_only entry that names no tts component
MissingTTS(entry) == IsTtsOnly(entry) /\ entry.tts = Absent

\* the declared stt/llm keys of a tts_only entry are kept
ForcedKeyKeepingDeclared(declared, sentinel) ==
    IF declared = Absent THEN sentinel ELSE declared

\* the stt/llm key of a tts_only entry: the no-op sentinel, whatever was
\* declared
ForcedKey(declared, sentinel) == sentinel

\* the type of an entry that declares none stays unset
TypeOfUnset(entry) == entry.type

\* the type of an entry: "standard" when none is declared
TypeOf(entry) == IF entry.type = Absent THEN "standard" ELSE entry.type

\* one entry, normalized
NormalizeEntry(entry) ==
    IF IsTtsOnly(entry)
    THEN [entry EXCEPT !.stt = ForcedKey(entry.stt, "none_stt"),
                       !.llm = ForcedKey(entry.llm, "none_llm")]
    ELSE [entry EXCEPT !.type = TypeOf(entry)]

\* the error a tts_only entry without tts raises
MissingTTSError == "requires a 'tts' component"

\* a configuration has been loaded
PipelinesInit ==
    /\ ToolInit
    /\ LaterIdle
    /\ AdapterIdle
    /\ CallersIdle
    /\ TurnIdle
    /\ CodecIdle
    /\ MergeIdle
    /\ ComposeIdle
    /\ BroadcastIdle
    /\ n_pc = "raw"
    /\ n_given \in RawTables
    /\ n_table = n_given
    /\ n_error = ""
    /\ n_resolution = NoResolution

\* normalize_pipelines(config_data): every entry is rewritten in place
NormalizePipelines ==
    /\ n_pc = "raw"
    /\ \A name \in DOMAIN n_table : ~MissingTTS(n_table[name])
    /\ n_table' = [name \in DOMAIN n_table |-> NormalizeEntry(n_table[name])]
    /\ n_pc' = "normalized"
    /\ UNCHANGED <<n_given, n_error, n_resolution, nonpipelines>>

\* normalize_pipelines(config_data) raises: a tts_only entry names no tts
NormalizeRejects ==
    /\ n_pc = "raw"
    /\ \E name \in DOMAIN n_table : MissingTTS(n_table[name])
    /\ n_error' = MissingTTSError
    /\ n_pc' = "rejected"
    /\ UNCHANGED <<n_given, n_table, n_resolution, nonpipelines>>

\* the orchestrator resolves a call's pipeline by name
ResolvePipeline(name) ==
    /\ n_pc = "normalized"
    /\ name \in DOMAIN n_table
    /\ n_resolution' =
        [name |-> name,
         stt_key |-> n_table[name].stt,
         llm_key |-> n_table[name].llm,
         tts_key |-> n_table[name].tts,
         is_tts_only |-> IsTtsOnly(n_table[name])]
    /\ UNCHANGED <<n_pc, n_given, n_table, n_error, nonpipelines>>

PipelinesNext ==
    \/ NormalizePipelines
    \/ NormalizeRejects
    \/ \E name \in PipelineNames : ResolvePipeline(name)

SpecPipelines == PipelinesInit /\ [][PipelinesNext]_vars

PipelinesTypeOK ==
    /\ n_pc \in {"raw", "normalized", "rejected"}
    /\ n_given \in RawTables
    /\ DOMAIN n_table = DOMAIN n_given
    /\ n_error \in {"", MissingTTSError}
    /\ n_resolution.name \in PipelineNames \cup {"none"}

\* --------------------------------------------- tts_only calls, no-op adapters

\* STT / LLM turns followed per call
MaxCallTurns == 2
\* calls to the no-op adapters followed
MaxNoOpCalls == 2

\* what the no-op adapters are given: audio for transcribe, text for generate
NoOpInputs(op) == IF op = "transcribe" THEN {"", "audio"} ELSE {"", "test"}
AllNoOpInputs == NoOpInputs("transcribe") \cup NoOpInputs("generate")

\* the no-op adapter hands its input back
NoOpResultEcho(op, input) == input

\* NoOpSTTAdapter.transcribe / NoOpLLMAdapter.generate: empty text
NoOpResult(op, input) == ""

\* no call skips its turns
SkipsTurnsNever(is_tts_only) == FALSE

\* ACTIVE has the sub-mode tts_only, which skips STT/LLM turns entirely
SkipsTurns(is_tts_only) == is_tts_only

\* a call has been announced; its pipeline is tts_only or standard, its
\* context sets auto_hangup_after_tts or leaves the default
BroadcastInit ==
    /\ ToolInit
    /\ LaterIdle
    /\ AdapterIdle
    /\ CallersIdle
    /\ TurnIdle
    /\ CodecIdle
    /\ MergeIdle
    /\ ComposeIdle
    /\ PipelinesIdle
    /\ b_state = "INITIATING"
    /\ b_is_tts_only \in BOOLEAN
    /\ b_auto_hangup \in BOOLEAN
    /\ b_synth = "none"
    /\ b_stt_turns = 0
    /\ b_llm_turns = 0
    /\ b_end_cause = "none"
    /\ b_closes = [role \in Roles |-> "unopened"]
    /\ b_calls = 0
    /\ b_last = NoNoOpCall

\* INITIATING -> ACTIVE: the pipeline resolved, open_call done for every role
Activate ==
    /\ b_state = "INITIATING"
    /\ b_state' = "ACTIVE"
    /\ b_closes' = [role \in Roles |-> "open"]
    /\ UNCHANGED <<b_is_tts_only, b_auto_hangup, b_synth, b_stt_turns,
                   b_llm_turns, b_end_cause, b_calls, b_last, nonbroadcast>>

\* a turn of the caller's speech is transcribed
STTTurn ==
    /\ b_state = "ACTIVE"
    /\ ~SkipsTurns(b_is_tts_only)
    /\ b_stt_turns < MaxCallTurns
    /\ b_stt_turns' = b_stt_turns + 1
    /\ UNCHANGED <<b_state, b_is_tts_only, b_auto_hangup, b_synth,
                   b_llm_turns, b_end_cause, b_calls, b_last, b_closes,
                   nonbroadcast>>

\* a reply is generated for a transcribed turn
LLMTurn ==
    /\ b_state = "ACTIVE"
    /\ ~SkipsTurns(b_is_tts_only)
    /\ b_llm_turns < b_stt_turns
    /\ b_llm_turns' = b_llm_turns + 1
    /\ UNCHANGED <<b_state, b_is_tts_only, b_auto_hangup, b_synth,
                   b_stt_turns, b_end_cause, b_calls, b_last, b_closes,
                   nonbroadcast>>

\* synthesis starts: of tts_only_text in a tts_only call, of a generated
\* reply otherwise
StartSynthesis ==
    /\ b_state = "ACTIVE"
    /\ b_synth = "none"
    /\ b_is_tts_only \/ b_llm_turns > 0
    /\ b_synth' = "running"
    /\ UNCHANGED <<b_state, b_is_tts_only, b_auto_hangup, b_stt_turns,
                   b_llm_turns, b_end_cause, b_calls, b_last, b_closes,
                   nonbroadcast>>

\* the last chunk has been played
SynthesisCompletes ==
    /\ b_state = "ACTIVE"
    /\ b_synth = "running"
    /\ b_synth' = "done"
    /\ UNCHANGED <<b_state, b_is_tts_only, b_auto_hangup, b_stt_turns,
                   b_llm_turns, b_end_cause, b_calls, b_last, b_closes,
                   nonbroadcast>>

\* tts_only, synthesis complete, auto_hangup_after_tts: ACTIVE -> ENDING
AutoHangup ==
    /\ b_state = "ACTIVE"
    /\ b_is_tts_only
    /\ b_auto_hangup
    /\ b_synth = "done"
    /\ b_state' = "ENDING"
    /\ b_end_cause' = "auto_hangup"
    /\ UNCHANGED <<b_is_tts_only, b_auto_hangup, b_synth, b_stt_turns,
                   b_llm_turns, b_calls, b_last, b_closes,
                   nonbroadcast>>

\* ACTIVE -> ENDING on an explicit hangup action or a call-end notification
HangupCall ==
    /\ b_state = "ACTIVE"
    /\ b_state' = "ENDING"
    /\ b_end_cause' = "hangup"
    /\ UNCHANGED <<b_is_tts_only, b_auto_hangup, b_synth, b_stt_turns,
                   b_llm_turns, b_calls, b_last, b_closes,
                   nonbroadcast>>

\* teardown ends at the first close_call that fails
MayFinishAfterFailure(closes) ==
    \/ \A role \in Roles : closes[role] # "open"
    \/ \E role \in Roles : closes[role] = "failed"

\* teardown has called close_call for every resolved role
MayFinish(closes) == \A role \in Roles : closes[role] # "open"

\* ENDING: close_call of one role's adapter returns, or fails, which is
\* logged
CloseRole(role, ok) ==
    /\ b_state = "ENDING"
    /\ b_closes[role] = "open"
    /\ b_closes' = [b_closes EXCEPT ![role] = IF ok THEN "closed" ELSE "failed"]
    /\ UNCHANGED <<b_state, b_is_tts_only, b_auto_hangup, b_synth,
                   b_stt_turns, b_llm_turns, b_end_cause, b_calls, b_last,
                   nonbroadcast>>

\* ENDING -> ENDED: close_call has been called for every resolved role
TeardownCall ==
    /\ b_state = "ENDING"
    /\ MayFinish(b_closes)
    /\ b_state' = "ENDED"
    /\ UNCHANGED <<b_is_tts_only, b_auto_hangup, b_synth, b_stt_turns,
                   b_llm_turns, b_end_cause, b_closes, b_calls, b_last,
                   nonbroadcast>>

\* NoOpSTTAdapter.transcribe(call_id, audio, rate, options): returns at once
NoOpTranscribe ==
    \E input \in AllNoOpInputs :
        /\ b_calls < MaxNoOpCalls
        /\ input \in NoOpInputs("transcribe")
        /\ b_calls' = b_calls + 1
        /\ b_last' = [op |-> "transcribe", input |-> input,
                      out |-> NoOpResult("transcribe", input),
                      suspended |-> FALSE]
        /\ UNCHANGED <<b_state, b_is_tts_only, b_auto_hangup, b_synth,
                       b_stt_turns, b_llm_turns, b_end_cause, b_closes,
                   nonbroadcast>>

\* NoOpLLMAdapter.generate(call_id, text, state, options): returns at once
NoOpGenerate ==
    \E input \in AllNoOpInputs :
        /\ b_calls < MaxNoOpCalls
        /\ input \in NoOpInputs("generate")
        /\ b_calls' = b_calls + 1
        /\ b_last' = [op |-> "generate", input |-> input,
                      out |-> NoOpResult("generate", input),
                      suspended |-> FALSE]
        /\ UNCHANGED <<b_state, b_is_tts_only, b_auto_hangup, b_synth,
                       b_stt_turns, b_llm_turns, b_end_cause, b_closes,
                   nonbroadcast>>

BroadcastNext ==
    \/ Activate
    \/ STTTurn
    \/ LLMTurn
    \/ StartSynthesis
    \/ SynthesisCompletes
    \/ AutoHangup
    \/ HangupCall
    \/ \E role \in Roles, ok \in BOOLEAN : CloseRole(role, ok)
    \/ TeardownCall
    \/ NoOpTranscribe
    \/ NoOpGenerate

SpecBroadcast == BroadcastInit /\ [][BroadcastNext]_vars

\* the session's own transitions are scheduled once enabled: the hangup
\* after the last chunk, and the teardown of an ending call, close_call by
\* close_call
SpecBroadcastFair ==
    /\ SpecBroadcast
    /\ WF_vars(AutoHangup)
    /\ WF_vars(\E role \in Roles, ok \in BOOLEAN : CloseRole(role, ok))
    /\ WF_vars(TeardownCall)

BroadcastTypeOK ==
    /\ b_state \in {"INITIATING", "ACTIVE", "ENDING", "ENDED"}
    /\ b_is_tts_only \in BOOLEAN
    /\ b_auto_hangup \in BOOLEAN
    /\ b_synth \in {"none", "running", "done"}
    /\ b_stt_turns \in 0..MaxCallTurns
    /\ b_llm_turns \in 0..b_stt_turns
    /\ b_end_cause \in {"none", "auto_hangup", "hangup"}
    /\ b_closes \in [Roles -> {"unopened", "open", "closed", "failed"}]
    /\ b_calls \in 0..MaxNoOpCalls
    /\ b_last.op \in {"none", "transcribe", "generate"}

\* ------------------------------------------- ExitARITool.execute, alone

\* the parameters execute is given: a mapping with each key absent, falsy
\* or set, or a value that is no mapping
ExitParameters ==
    { [args_is_mapping |-> TRUE,
       arguments |-> Params(keys, farewell_message, context, "100", priority)] :
        keys \in SUBSET {"farewell_message", "context", "extension",
                         "priority"},
        farewell_message \in {"", "Goodbye"},
        context \in {"", "ivr"},
        priority \in {0, 2} }
    \cup {[args_is_mapping |-> FALSE, arguments |-> Params({}, "", "", "", 0)]}

\* the execution contexts: with and without an ARI client, with a channel
\* id, an empty one or none
ExecContexts ==
    [ari_client : {NoneVal, "client"},
     caller_channel_id : {NoneVal, "", "chan_1"}]

\* exit_ari is about to be executed
ExitInit ==
    /\ ToolInit
    /\ AdapterIdle
    /\ CallersIdle
    /\ TurnIdle
    /\ CodecIdle
    /\ MergeIdle
    /\ ComposeIdle
    /\ PipelinesIdle
    /\ BroadcastIdle
    /\ GCalIdle
    /\ LogsIdle
    /\ x_pc = "called"
    /\ x_parameters \in ExitParameters
    /\ x_context \in ExecContexts
    /\ x_issued = 0
    /\ x_outcome = "none"
    /\ x_result = NoResult

\* exit_ari.py:115-154  execute up to its await
ExecuteBegin ==
    /\ x_pc = "called"
    /\ LET b == ExitARIBegin(x_parameters, x_context) IN
        /\ x_pc' = CASE b.kind = "return" -> "returned"
                     [] b.kind = "raise" -> "raised"
                     [] OTHER -> "awaiting"
        /\ x_result' = b.result
        /\ x_issued' = IF b.kind = "await" THEN x_issued + 1 ELSE x_issued
    /\ UNCHANGED <<x_parameters, x_context, x_outcome, nonexitari>>

\* exit_ari.py:147-196  continue_in_dialplan completes, execute returns
ExecuteResume(outcome) ==
    /\ x_pc = "awaiting"
    /\ LET b == ExitARIBegin(x_parameters, x_context) IN
        x_result' = ExitARIResume(outcome, b.farewell, b.loc)
    /\ x_outcome' = outcome
    /\ x_pc' = "returned"
    /\ UNCHANGED <<x_parameters, x_context, x_issued, nonexitari>>

ExitNext ==
    \/ ExecuteBegin
    \/ \E outcome \in AriOutcomes : ExecuteResume(outcome)

SpecExit == ExitInit /\ [][ExitNext]_vars

ExitTypeOK ==
    /\ x_pc \in {"called", "awaiting", "returned", "raised"}
    /\ x_parameters \in ExitParameters
    /\ x_context \in ExecContexts
    /\ x_issued \in 0..1
    /\ x_outcome \in AriOutcomes \cup {"none"}
    /\ x_result.status \in {NoneVal, "success", "error"}

\* ------------------------------------------------ GCalendar and its threads

CalendarOperations == {"list_events", "get_event", "create_event"}

\* what each operation returns when it has nothing: [] or None
EmptyValue(op) ==
    IF op = "list_events" THEN [kind |-> "list", items |-> <<>>]
    ELSE [kind |-> "none"]

\* what req.execute() does for the request a thread has made: it raises, or
\* it returns a page (no "items" key or an empty list: no items; the page's
\* items are named after the page) with a nextPageToken or without one, or
\* it returns the event
ExecuteOutcomes(op, page) ==
    {[fails |-> TRUE, items |-> <<>>, next |-> FALSE]}
    \cup IF op = "list_events"
         THEN [fails : {FALSE}, items : {<<>>, <<page>>}, next : BOOLEAN]
         ELSE {[fails |-> FALSE, items |-> <<>>, next |-> FALSE]}

\* the items of the pages, page after page
RECURSIVE PageItems(_)
PageItems(pages) ==
    IF pages = <<>> THEN <<>>
    ELSE pages[1].items \o PageItems(Tail(pages))

\* the lock stays with the thread whose request failed
LockAfterExecuteHeldOnFailure(t, out) == IF out.fails THEN t ELSE 0

\* `with self._lock:` is left, by return or by exception
LockAfterExecute(t, out) == 0

\* the exception of a failing request leaves the operation
OnRequestFailureRaising(thread) ==
    [thread EXCEPT !.pc = "raised", !.failed = TRUE, !.raised = TRUE]

\* `except Exception`: logged, and the empty value returned
OnRequestFailure(thread) ==
    [thread EXCEPT !.pc = "returned", !.failed = TRUE,
                   !.result = EmptyValue(thread.op)]

\* list_events after a page: items.extend(...), and the next request when
\* the page has a nextPageToken, else return items
AfterPage(thread, out) ==
    LET items == thread.items \o out.items IN
    IF out.next
    THEN [thread EXCEPT !.pc = "waiting", !.items = items,
                        !.served = Append(@, out)]
    ELSE [thread EXCEPT !.pc = "returned", !.items = items,
                        !.served = Append(@, out),
                        !.result = [kind |-> "list", items |-> items]]

\* the operation after execute() has returned or raised
AfterExecute(thread, out) ==
    IF out.fails THEN OnRequestFailure(thread)
    ELSE IF thread.op = "list_events" THEN AfterPage(thread, out)
    ELSE [thread EXCEPT !.pc = "returned", !.result = [kind |-> "event"]]

\* a GCalendar whose constructor connected or did not, and idle threads
GCalInit ==
    /\ ToolInit
    /\ AdapterIdle
    /\ CallersIdle
    /\ TurnIdle
    /\ CodecIdle
    /\ MergeIdle
    /\ ComposeIdle
    /\ PipelinesIdle
    /\ BroadcastIdle
    /\ ExitIdle
    /\ LogsIdle
    /\ g_service \in BOOLEAN
    /\ g_lock = 0
    /\ g_threads = [t \in Threads |-> IdleThread]
    /\ g_calls = 0

\* gcalendar.py:71-94, 111-125, 140-176  a thread calls an operation: without
\* a service it returns the empty value, with one it builds its request
CallOperation(t, op) ==
    /\ g_threads[t].pc \in {"idle", "returned"}
    /\ g_calls < MaxCalendarCalls
    /\ g_calls' = g_calls + 1
    /\ g_threads' = [g_threads EXCEPT ![t] =
            IF ~g_service
            THEN [IdleThread EXCEPT !.op = op, !.pc = "returned",
                                    !.result = EmptyValue(op)]
            ELSE [IdleThread EXCEPT !.op = op, !.pc = "waiting"]]
    /\ UNCHANGED <<g_service, g_lock, nongcal>>

\* gcalendar.py:95-96, 126-127, 177-178  `with self._lock:` is entered when
\* the lock is free, and req.execute() begins
AcquireLock(t) ==
    /\ g_threads[t].pc = "waiting"
    /\ g_lock = 0
    /\ g_lock' = t
    /\ g_threads' = [g_threads EXCEPT ![t].pc = "executing",
                                       ![t].requests = @ + 1]
    /\ UNCHANGED <<g_service, g_calls, nongcal>>

\* gcalendar.py:96-109, 127-138, 178-191  req.execute() returns or raises,
\* the `with` block is left, and the operation goes on to its next request
\* or returns
ExecuteReturns(t, out) ==
    /\ g_threads[t].pc = "executing"
    /\ out \in ExecuteOutcomes(g_threads[t].op, g_threads[t].requests)
    /\ g_threads[t].requests >= MaxPages => ~out.next
    /\ g_lock' = LockAfterExecute(t, out)
    /\ g_threads' = [g_threads EXCEPT ![t] = AfterExecute(@, out)]
    /\ UNCHANGED <<g_service, g_calls, nongcal>>

AllExecuteOutcomes ==
    UNION { ExecuteOutcomes(op, page) :
                op \in CalendarOperations, page \in 1..MaxPages }

GCalNext ==
    \/ \E t \in Threads, op \in CalendarOperations : CallOperation(t, op)
    \/ \E t \in Threads : AcquireLock(t)
    \/ \E t \in Threads, out \in AllExecuteOutcomes : ExecuteReturns(t, out)

SpecGCal == GCalInit /\ [][GCalNext]_vars

GCalTypeOK ==
    /\ g_service \in BOOLEAN
    /\ g_lock \in 0..NumThreads
    /\ g_calls \in 0..MaxCalendarCalls
    /\ \A t \in Threads :
          /\ g_threads[t].op \in CalendarOperations \cup {"none"}
          /\ g_threads[t].pc \in {"idle", "waiting", "executing", "returned"}
          /\ g_threads[t].requests \in 0..MaxPages
          /\ Len(g_threads[t].served) <= MaxPages
          /\ g_threads[t].result.kind \in {"pending", "list", "none", "event"}

\* ------------------------------------------- admin backend: log endpoints

\* what the docker calls of one request do: from_env, containers.list with
\* the name filter, containers.get with the exact name, container.logs
DockerWorlds ==
    [from_env : {"ok", "error"},
     list : {"match", "none", "error"},
     get : {"found", "not_found", "error"},
     logs : {"ok", "error"}]

\* the body of the try block, the same lookup in both endpoints: how it is
\* left ("ok": by the return, "http_404": by the HTTPException it raises,
\* "error": by any other exception)
TryBody(docker) ==
    IF docker.from_env = "error" \/ docker.list = "error" THEN "error"
    ELSE IF docker.list = "none" /\ docker.get = "not_found" THEN "http_404"
    ELSE IF docker.list = "none" /\ docker.get = "error" THEN "error"
    ELSE IF docker.logs = "error" THEN "error"
    ELSE "ok"

\* get_container_logs: `except Exception` is its only handler, and
\* HTTPException is an Exception
LogsResponse(left) ==
    IF left = "ok" THEN [status |-> 200, body |-> "logs"]
    ELSE [status |-> 500, body |-> left]

\* get_container_log_events: `except HTTPException: raise` comes first
EventsResponse(left) ==
    IF left = "ok" THEN [status |-> 200, body |-> "events"]
    ELSE IF left = "http_404" THEN [status |-> 404, body |-> left]
    ELSE [status |-> 500, body |-> left]

\* a request to one of the endpoints has arrived
LogsInit ==
    /\ ToolInit
    /\ AdapterIdle
    /\ CallersIdle
    /\ TurnIdle
    /\ CodecIdle
    /\ MergeIdle
    /\ ComposeIdle
    /\ PipelinesIdle
    /\ BroadcastIdle
    /\ ExitIdle
    /\ GCalIdle
    /\ l_pc = "called"
    /\ l_endpoint \in {"logs", "events"}
    /\ l_docker \in DockerWorlds
    /\ l_response = NoLogResponse

\* logs.py:37-64  GET /{container_name}
GetContainerLogs ==
    /\ l_pc = "called"
    /\ l_endpoint = "logs"
    /\ l_response' = LogsResponse(TryBody(l_docker))
    /\ l_pc' = "responded"
    /\ UNCHANGED <<l_endpoint, l_docker, nonlogs>>

\* logs.py:67-151  GET /{container_name}/events
GetContainerLogEvents ==
    /\ l_pc = "called"
    /\ l_endpoint = "events"
    /\ l_response' = EventsResponse(TryBody(l_docker))
    /\ l_pc' = "responded"
    /\ UNCHANGED <<l_endpoint, l_docker, nonlogs>>

LogsNext ==
    \/ GetContainerLogs
    \/ GetContainerLogEvents

SpecLogs == LogsInit /\ [][LogsNext]_vars

LogsTypeOK ==
    /\ l_pc \in {"called", "responded"}
    /\ l_endpoint \in {"logs", "events"}
    /\ l_docker \in DockerWorlds
    /\ l_response.status \in {0, 200, 404, 500}

\* ------------------------------------------------------------- properties

\* C1: whenever exit_ari has issued continue_in_dialplan for the call, the
\* session's transfer_active, transfer_state and transfer_target are set.
C1_FlagsSetBeforeContinue ==
    \A i \in 1..Len(dialplan) :
        dialplan[i].tool = "exit_ari" =>
            /\ transfer_active
            /\ transfer_state # NoneVal
            /\ transfer_target # NoLocation

\* C2: a call-end notification that arrives after continue_in_dialplan was
\* issued for the call drives the session to EXITED, never to ENDING/ENDED.
C2_EndAfterContinueExits ==
    (end_cause = "notification" /\ end_after_continue) => state = "EXITED"

\* C3: an unflagged call leaves ACTIVE only to ENDING, ENDING only to
\* ENDED, ENDED is final, and TRANSFERRING and EXITED are entered only
\* with transfer_active set.
C3_UnflaggedEndGoesToEnded ==
    [][ /\ (state = "ACTIVE" /\ ~transfer_active' /\ state' # state
               => state' = "ENDING")
        /\ (state = "ENDING" /\ state' # state => state' = "ENDED")
        /\ (state = "ENDED" => state' = state)
        /\ (state' \in {"TRANSFERRING", "EXITED"} => transfer_active')
      ]_vars
\* an unflagged call-end notification has taken the call to ENDED
C3_Witness ==
    state = "ENDED" /\ ~transfer_active /\ end_cause = "notification"

\* C4: when exit_ari has issued continue_in_dialplan for an event with a
\* non-empty farewell_message, the farewell has already been spoken.
C4_FarewellSpokenBeforeContinue ==
    (hpc = "await_execute" /\ htool = "exit_ari" /\ ~Falsy(hfarewell))
        => farewell_spoken

\* C5: the handler is never still awaiting exit_ari's execute once more
\* than the declared max_execution_time has elapsed.
C5_NoWaitBeyondBudget ==
    ~(hpc = "await_execute" /\ htool = "exit_ari"
        /\ elapsed > max_execution_time)

\* C6: an event naming a tool that is not registered is answered with an
\* error result carrying a message, without raising, without constructing
\* an execution context and without executing a tool.
C6_UnknownToolIsErrorResult ==
    (hpc # "idle" /\ hname \notin Registry) =>
        /\ hpc = "returned"
        /\ result.status = "error"
        /\ "message" \in result.keys /\ result.message # ""
        /\ ~h_ctx_built
        /\ ~h_executed
\* an unknown tool name has been answered
C6_Witness ==
    hpc = "returned" /\ hname = "no_such_tool" /\ result.status = "error"

\* C7: handle_tool_call_event never raises.
C7_HandlerNeverRaises == hpc # "raised"

\* C8: every result returned has a status that is "success" or "error",
\* and an error result carries a non-empty message.
C8_ResultWellFormed ==
    hpc = "returned" =>
        /\ "status" \in result.keys
        /\ result.status \in {"success", "error"}
        /\ (result.status = "error" =>
               "message" \in result.keys /\ result.message # "")
\* exit_ari has returned its "Failed to exit ARI" error through the handler
C8_Witness ==
    /\ hpc = "returned" /\ hname = "exit_ari"
    /\ result.status = "error" /\ result.message = "Failed to exit ARI"

\* C9: the result the handler returns carries the id of the originating
\* event, and so does the response handed to the websocket.
C9_CorrelationIdPreserved ==
    /\ (hpc = "returned" /\ send_calls = 0) =>
           ("function_call_id" \in result.keys
            /\ result.function_call_id = hid)
    /\ spc = "sending" => wire[Len(wire)].id = hid
\* the result of a tool that put an id of its own in its result is being
\* sent for the second event of the call
C9_Witness ==
    /\ spc = "sending" /\ hname = "stub_tool" /\ turns = 2
    /\ result.status = "success" /\ wire[Len(wire)].id = "call_2"

\* C10: one invocation of send_tool_result makes at most one send attempt,
\* a failed send ends the invocation, and the invocation never raises.
C10_FireAndForget ==
    /\ send_attempts <= 1
    /\ spc \in {"idle", "sending", "done"}
    /\ send_log = "failed" => spc = "done"
\* a send has failed and the invocation has ended after its one attempt
C10_Witness ==
    spc = "done" /\ send_log = "failed" /\ send_attempts = 1
\* C11: while no stop() has begun, however many calls have used the adapter
\* concurrently, the session factory has been invoked at most once, and every
\* call that opened or posted a request did so on the session the adapter
\* holds.
C11_SessionInitializedOnce ==
    (stops = 0 /\ stop_pc = "idle") =>
        /\ Len(sessions) <= 1
        /\ \A c \in Calls :
              (calls[c].pc = "posted" \/ calls[c].op = "open_call") =>
                  (calls[c].session = a_session /\ a_session = 1)

\* every call has a request in flight at once, on the one session
C11_Witness ==
    /\ stops = 0
    /\ stop_pc = "idle"
    /\ \A c \in Calls : calls[c].pc = "posted" /\ calls[c].session = 1
    /\ Len(sessions) = 1

\* C12: whenever a stop() completes - before or after start(), with or
\* without a session, a first or a repeated stop - the adapter holds no
\* session afterwards, and the session stop() found, if any, is closed.
C12_StopReleasesSession ==
    [][ (stops' = stops + 1) =>
            /\ a_session' = 0
            /\ (stop_pc = "closing" => sessions'[stop_held].closed)
            /\ (stop_pc = "idle" /\ a_session # 0 =>
                    sessions[a_session].closed) ]_vars

\* stop() called twice with no start(): the session it found is closed
C12_Witness ==
    /\ stops = 2
    /\ ~started
    /\ a_session = 0
    /\ Len(sessions) = 1
    /\ sessions[1].closed

\* C13: transcribe of empty audio, on either STT adapter, has returned ""
\* with no session ensured or created and no request posted.
C13_EmptyAudioShortCircuits ==
    (akind \in STTKinds /\ t_pc # "ready" /\ t_in.audio_len = 0) =>
        /\ t_pc = "done"
        /\ t_result = [returned |-> TRUE, text |-> ""]
        /\ ~t_ensured
        /\ t_posts = 0
        /\ a_session = 0
        /\ sessions = <<>>

\* the realtime adapter has returned "" for empty audio
C13_Witness ==
    /\ akind = "azure_stt_realtime"
    /\ t_pc = "done"
    /\ t_in.audio_len = 0
    /\ t_result.returned
    /\ sessions = <<>>

\* C14: on azure_stt_fast, transcribe of 3200 zero bytes returns "" and
\* posts no request.
C14_SilenceNotPosted ==
    (akind = "azure_stt_fast" /\ t_pc # "ready"
        /\ t_in.audio_len = SilenceLen /\ t_in.silent) =>
        /\ t_posts = 0
        /\ t_pc = "done"
        /\ t_result = [returned |-> TRUE, text |-> ""]

\* C15: synthesize of empty text has ended with no chunk yielded, no session
\* ensured or created and no request posted.
C15_EmptyTextShortCircuits ==
    (akind = "azure_tts" /\ t_pc # "ready" /\ t_in.text = "") =>
        /\ t_pc = "done"
        /\ t_chunks = <<>>
        /\ ~t_ensured
        /\ t_posts = 0
        /\ a_session = 0
        /\ sessions = <<>>

\* synthesize has ended for empty text, an API key being configured
C15_Witness ==
    /\ akind = "azure_tts"
    /\ t_pc = "done"
    /\ t_in.text = ""
    /\ t_in.has_key
    /\ t_chunks = <<>>
    /\ sessions = <<>>

\* C16: once transcribe has read a response whose status is outside
\* 200..299, it has failed with an error carrying that status and at most 256
\* characters of the body, and has returned no transcript.
C16_NonSuccessStatusFails ==
    (akind \in STTKinds /\ t_resp.status # 0
        /\ t_resp.status \notin 200..299) =>
        /\ t_pc = "failed"
        /\ t_error.kind = "http_status"
        /\ t_error.status = t_resp.status
        /\ t_error.preview_len <= BodyPreviewMax
        /\ ~t_result.returned

\* C17: once transcribe has read a success response whose body is text that
\* is not JSON, it has failed and has returned nothing.
C17_MalformedBodyFails ==
    (akind \in STTKinds /\ t_resp.status \in 200..299
        /\ t_resp.body.kind = "not_json" /\ t_resp.body.len > 0) =>
        (t_pc = "failed" /\ ~t_result.returned)

\* C18: for a format of the table that the endpoint honoured, whatever the
\* target encoding and rate, the audio synthesize yields chunks of is in the
\* target encoding at the target rate.
C18_YieldedAudioInTarget ==
    (akind = "azure_tts" /\ t_chunks # <<>>
        /\ t_in.output_format \in KnownFormats
        /\ t_resp.body.kind \in {"mulaw", "alaw", "pcm16", "wav"}) =>
        /\ t_converted.enc = t_in.target_encoding
        /\ t_converted.rate = t_in.target_rate

\* C19: for a positive chunk duration, the chunks yielded so far are
\* consecutive slices of the converted audio from its start, they cover it
\* when the sequence has ended, and every chunk but the last of the audio has
\* exactly sample_rate * chunk_ms / 1000 * bytes_per_sample bytes.
C19_ChunksExactFrames ==
    (akind = "azure_tts" /\ t_chunks # <<>> /\ t_in.chunk_ms > 0) =>
        /\ t_chunks[1].lo = 0
        /\ \A i \in 2..Len(t_chunks) : t_chunks[i].lo = t_chunks[i - 1].hi
        /\ t_pc = "done" => t_chunks[Len(t_chunks)].hi = t_converted.len
        /\ \A i \in 1..Len(t_chunks) :
              t_chunks[i].hi < t_converted.len =>
                  (t_chunks[i].hi - t_chunks[i].lo) * 1000
                      = t_in.target_rate * t_in.chunk_ms
                            * BytesPerSample(t_in.target_encoding)

\* C20: for a format outside the table, synthesize does not fail in decoding:
\* a body that is a WAV container is decoded as one, and any other body is
\* tagged "unknown" and chunked byte for byte as it came.
C20_UnknownFormatFallsBack ==
    (akind = "azure_tts" /\ t_resp.status # 0 /\ t_resp.status < 400
        /\ t_in.output_format \notin KnownFormats) =>
        /\ t_pc \in {"streaming", "done"}
        /\ t_resp.body.kind = "wav" =>
              (t_native = "pcm16" /\ t_converted.via # <<>>
                /\ t_converted.via[1] = "wav")
        /\ t_resp.body.kind # "wav" =>
              (t_native = "unknown"
                /\ t_converted = [enc |-> t_resp.body.kind,
                                  rate |-> t_resp.body.rate,
                                  len |-> t_resp.body.len, via |-> <<>>])

\* an MP3 body has been passed through whole, in more than one chunk
C20_Witness ==
    /\ akind = "azure_tts"
    /\ t_in.output_format = "audio-16khz-32kbitrate-mono-mp3"
    /\ t_resp.body.kind = "mp3"
    /\ t_native = "unknown"
    /\ t_pc = "done"
    /\ Len(t_chunks) > 1
    /\ t_chunks[Len(t_chunks)].hi = t_resp.body.len

\* C21: decoding the container that _pcm16le_to_wav wrote gives back the
\* bytes, of even or odd length, and the rate it was given.
C21_WavRoundTrip ==
    w_pc = "decoded" =>
        (~w_out.raises /\ w_out.frames = w_pcm /\ w_out.rate = w_rate)

\* C22: when the decoded audio is PCM16 and its source rate is the target
\* rate, the PCM16 that synthesize hands to the re-encoder is the decoded
\* audio itself, byte for byte.
C22_NoResampleAtEqualRates ==
    (akind = "azure_tts" /\ t_native = "pcm16"
        /\ t_source_rate = t_in.target_rate) =>
        t_pcm = t_decoded

\* a WAV body at the target rate was re-encoded to mu-law unresampled
C22_Witness ==
    /\ akind = "azure_tts"
    /\ t_in.output_format = "riff-8khz-16bit-mono-pcm"
    /\ t_in.target_rate = 8000
    /\ t_in.target_encoding = "mulaw"
    /\ t_source_rate = 8000
    /\ t_decoded.len > 0
    /\ t_pcm = t_decoded
    /\ t_converted.via = <<"wav", "mulaw">>
    /\ t_pc = "done"

\* C23: the option merge is recursive and left to right by precedence: a
\* nested key set at a higher level wins, a nested key set only at a lower
\* level is kept; defaults {a:1, b:{x:1}}, pipeline {b:{y:2}} and runtime
\* {b:{x:9}} merge to {a:1, b:{x:9, y:2}}; and the mappings passed in are
\* afterwards what they were.
C23_MergeIsRecursiveLeftToRight ==
    m_pc = "merged" =>
        /\ m_given = << [a |-> IntVal(1), b |-> DictVal([x |-> IntVal(1)])],
                        [b |-> DictVal([y |-> IntVal(2)])],
                        [b |-> DictVal([x |-> IntVal(9)])] >>
           => m_merged = [a |-> IntVal(1),
                          b |-> DictVal([x |-> IntVal(9), y |-> IntVal(2)])]
        /\ \A k \in {"a", "b"}, j \in {"x", "y"} :
            LET Skipped(i) == k \notin DOMAIN m_given[i]
                                \/ m_given[i][k] = NoneOption
                Nested(i) == ~Skipped(i) /\ IsDict(m_given[i][k])
                Sets(i) == /\ Nested(i)
                           /\ j \in DOMAIN m_given[i][k].d
                           /\ m_given[i][k].d[j] # NoneOption
                Setters == {i \in 1..3 : Sets(i)}
                Top == CHOOSE i \in Setters : \A i2 \in Setters : i2 <= i
            IN  ((\A i \in 1..3 : Skipped(i) \/ Nested(i)) /\ Setters # {})
                    => /\ k \in DOMAIN m_merged
                       /\ IsDict(m_merged[k])
                       /\ j \in DOMAIN m_merged[k].d
                       /\ m_merged[k].d[j] = m_given[Top][k].d[j]
        /\ <<m_defaults, m_pipeline, m_runtime>> = m_given

\* the three-level example has been merged
C23_Witness ==
    /\ m_pc = "merged"
    /\ m_given = << [a |-> IntVal(1), b |-> DictVal([x |-> IntVal(1)])],
                    [b |-> DictVal([y |-> IntVal(2)])],
                    [b |-> DictVal([x |-> IntVal(9)])] >>
    /\ m_merged = [a |-> IntVal(1),
                   b |-> DictVal([x |-> IntVal(9), y |-> IntVal(2)])]

\* C24: a None at a higher level never overrides a concrete lower value: when
\* the runtime or the pipeline options hold the key with value None, the
\* adapter composes the key without raising, and its value is the concrete
\* value of the nearest lower level.
C24_NoneNeverOverrides ==
    (c_pc \in {"composed", "failed"}
        /\ (c_runtime = NoneVal \/ c_pipeline = NoneVal)) =>
        /\ ~c_out.raises
        /\ c_out.value =
            IF c_runtime \notin {Absent, NoneVal} THEN c_runtime
            ELSE IF c_pipeline \notin {Absent, NoneVal} THEN c_pipeline
            ELSE IF c_kind = "azure_tts" /\ c_key = "language" THEN ""
            ELSE c_provider

\* C25: every composed key follows provider default < pipeline option <
\* runtime option: its value is the runtime value when one is supplied,
\* otherwise the pipeline value when one is declared, otherwise the provider
\* default; and composing yields a value for the key.
C25_PrecedenceOrder ==
    c_pc \in {"composed", "failed"} =>
        /\ c_pc = "composed"
        /\ \/ c_runtime \notin {Absent, NoneVal} /\ c_out.value = c_runtime
           \/ /\ c_runtime \in {Absent, NoneVal}
              /\ c_pipeline \notin {Absent, NoneVal}
              /\ c_out.value = c_pipeline
           \/ /\ c_runtime \in {Absent, NoneVal}
              /\ c_pipeline \in {Absent, NoneVal}
              /\ c_out.value = LowestLevel(c_kind, c_key, c_provider,
                                           c_provider)

\* C26: a tts_only entry with no tts key is rejected when the table is
\* normalized, with an error naming the missing 'tts' component, and no
\* pipeline is produced from the table.
C26_TtsOnlyRequiresTts ==
    (n_pc # "raw"
        /\ \E name \in DOMAIN n_given :
            n_given[name].type = "tts_only" /\ n_given[name].tts = Absent) =>
        /\ n_pc = "rejected"
        /\ n_error = "requires a 'tts' component"
        /\ n_resolution = NoResolution

\* a table whose tts_only entry names only stt and llm has been rejected
C26_Witness ==
    /\ n_pc = "rejected"
    /\ n_error = "requires a 'tts' component"
    /\ "broadcast" \in DOMAIN n_given
    /\ n_given["broadcast"].type = "tts_only"
    /\ n_given["broadcast"].tts = Absent
    /\ n_given["broadcast"].stt = "openai_stt"
    /\ n_resolution = NoResolution

\* C27: every tts_only entry that names a tts component resolves to stt
\* "none_stt", llm "none_llm" and is_tts_only true, whatever stt and llm it
\* declared, and to the tts key it declared.
C27_TtsOnlyForcesNoOp ==
    (n_resolution # NoResolution
        /\ n_given[n_resolution.name].type = "tts_only") =>
        /\ n_resolution.stt_key = "none_stt"
        /\ n_resolution.llm_key = "none_llm"
        /\ n_resolution.is_tts_only
        /\ n_resolution.tts_key = n_given[n_resolution.name].tts
        /\ n_resolution.tts_key # Absent

\* a tts_only entry declaring stt and llm of its own has been resolved
C27_Witness ==
    /\ n_resolution.name = "broadcast"
    /\ n_given["broadcast"].type = "tts_only"
    /\ n_given["broadcast"].stt = "openai_stt"
    /\ n_given["broadcast"].llm = "openai_llm"
    /\ n_resolution.stt_key = "none_stt"
    /\ n_resolution.llm_key = "none_llm"
    /\ n_resolution.tts_key = "openai_tts"
    /\ n_resolution.is_tts_only

\* C28: normalization leaves what it does not force: an entry with no
\* declared type becomes "standard" and keeps its stt, llm and tts; every
\* entry keeps its options and its tts key; and a standard entry is the same
\* whether or not a tts_only entry is normalized in the same table.
C28_NormalizationKeepsTheRest ==
    n_pc = "normalized" =>
        \A name \in DOMAIN n_given :
            /\ n_table[name].options = n_given[name].options
            /\ n_table[name].tts = n_given[name].tts
            /\ n_given[name].type = Absent =>
                /\ n_table[name].type = "standard"
                /\ n_table[name].stt = n_given[name].stt
                /\ n_table[name].llm = n_given[name].llm
            /\ n_given[name].type \in {Absent, "standard"} =>
                n_table[name] = [n_given[name] EXCEPT !.type = "standard"]

\* a table holding a typeless standard entry with options next to a
\* tts_only entry has been normalized
C28_Witness ==
    /\ n_pc = "normalized"
    /\ DOMAIN n_given = {"broadcast", "support"}
    /\ n_given["support"].type = Absent
    /\ n_given["support"].options = "voice-nova"
    /\ n_given["broadcast"].type = "tts_only"
    /\ n_table["support"].type = "standard"
    /\ n_table["support"].stt = "openai_stt"
    /\ n_table["broadcast"].stt = "none_stt"

\* C29: every call of the no-op STT adapter's transcribe and of the no-op LLM
\* adapter's generate returns the empty string, whatever its input, without
\* suspending, and changes nothing of the call or of any adapter.
C29_NoOpReturnsEmpty ==
    [][b_calls' # b_calls =>
        /\ b_last'.op \in {"transcribe", "generate"}
        /\ b_last'.out = ""
        /\ ~b_last'.suspended
        /\ UNCHANGED <<b_state, b_is_tts_only, b_auto_hangup, b_synth,
                       b_stt_turns, b_llm_turns, b_end_cause, b_closes,
                       adapter, callers, turn>>]_vars

\* transcribe has returned "" for non-empty audio during an active call
C29_Witness ==
    /\ b_calls > 0
    /\ b_last.op = "transcribe"
    /\ b_last.input = "audio"
    /\ b_last.out = ""
    /\ b_state = "ACTIVE"

\* C30: a tts_only call never performs an STT or LLM turn; once its synthesis
\* has completed with auto_hangup_after_tts set it reaches ENDED, through
\* ENDING; with auto_hangup_after_tts false the session never leaves ACTIVE
\* of its own accord, only on a hangup.
C30_TtsOnlyLifecycle ==
    /\ [](b_is_tts_only => (b_stt_turns = 0 /\ b_llm_turns = 0))
    /\ (b_is_tts_only /\ b_auto_hangup /\ b_synth = "done")
            ~> (b_state = "ENDED")
    /\ [][(b_state' = "ENDED" /\ b_state # "ENDED")
            => b_state = "ENDING"]_vars
    /\ []((b_is_tts_only /\ ~b_auto_hangup) => b_end_cause # "auto_hangup")
    /\ [][(b_is_tts_only /\ ~b_auto_hangup /\ b_synth' = "done"
            /\ b_state = "ACTIVE" /\ b_state' # "ACTIVE")
            => b_end_cause' = "hangup"]_vars

\* a tts_only call has hung up by itself after its synthesis
C30_Witness ==
    /\ b_is_tts_only
    /\ b_auto_hangup
    /\ b_synth = "done"
    /\ b_state = "ENDED"
    /\ b_end_cause = "auto_hangup"
    /\ b_stt_turns = 0
    /\ b_llm_turns = 0

\* C34: whenever the execution context has no ARI client or no caller
\* channel id, exit_ari returns an error result with will_exit false and
\* issues no continue_in_dialplan call.
C34_NoClientOrChannelIsError ==
    (x_pc # "called"
        /\ (x_context.ari_client \in {NoneVal, ""}
            \/ x_context.caller_channel_id \in {NoneVal, ""})) =>
        /\ x_pc = "returned"
        /\ x_result.status = "error"
        /\ "will_exit" \in x_result.keys
        /\ ~x_result.will_exit
        /\ x_issued = 0

\* exit_ari has returned for a context with a client and an empty channel id
C34_Witness ==
    /\ x_pc = "returned"
    /\ x_context.ari_client = "client"
    /\ x_context.caller_channel_id = ""
    /\ x_result.status = "error"
    /\ ~x_result.will_exit
    /\ x_issued = 0

\* C35: exit_ari issues continue_in_dialplan at most once per execution; its
\* result has status "success" and will_exit true exactly when the call
\* returned a true value; a false return or a raised exception gives status
\* "error" with will_exit false, and the exception does not leave execute.
C35_SuccessIffContinued ==
    /\ x_issued <= 1
    /\ x_pc = "returned" =>
        /\ (x_result.status = "success") = (x_outcome = "true")
        /\ x_result.will_exit = (x_outcome = "true")
        /\ x_outcome \in {"false", "raise"} =>
            /\ x_result.status = "error"
            /\ "will_exit" \in x_result.keys
    /\ x_outcome = "raise" => x_pc = "returned"

\* continue_in_dialplan raised and execute returned an error result
C35_Witness ==
    /\ x_pc = "returned"
    /\ x_outcome = "raise"
    /\ x_issued = 1
    /\ x_result.status = "error"
    /\ ~x_result.will_exit

\* C36: a tool result is delivered at most once: a response is handed to the
\* websocket only for a result that holds a non-empty function_call_id,
\* which that very send_tool_result removes; nothing but the handling of an
\* event puts an id into a result; and the result of an event with no id or
\* an empty id is never sent.
C36_ResultSentAtMostOnce ==
    [][/\ Len(wire') > Len(wire) =>
            /\ Len(wire') = Len(wire) + 1
            /\ "function_call_id" \in result.keys
            /\ result.function_call_id \notin {NoneVal, ""}
            /\ wire'[Len(wire')].id = result.function_call_id
            /\ "function_call_id" \notin result'.keys
            /\ hid \notin {NoneVal, ""}
       /\ ("function_call_id" \in result'.keys
            /\ "function_call_id" \notin result.keys) => hpc' # hpc
                                                         \/ turns' # turns
       /\ send_calls' = send_calls + 1 =>
            "function_call_id" \notin result'.keys
                \/ (result' = result /\ wire' = wire)]_vars

\* send_tool_result has run twice on the result of the first event, and one
\* response is on the wire
C36_Witness ==
    /\ turns = 1
    /\ hpc = "returned"
    /\ send_calls = 2
    /\ spc = "done"
    /\ Len(wire) = 1
    /\ wire[1].id = hid
    /\ "function_call_id" \notin result.keys

\* C31: teardown closes every resolved adapter even when one fails: a call
\* is ENDED only after close_call was called for every role, whether it
\* returned or failed, and an ENDING call always becomes ENDED.
C31_TeardownClosesEveryRole ==
    /\ [](b_state = "ENDED" =>
            \A role \in {"stt", "llm", "tts"} :
                b_closes[role] \in {"closed", "failed"})
    /\ (b_state = "ENDING") ~> (b_state = "ENDED")

\* a call has ended although close_call of its stt role failed, the other
\* two roles closed
C31_Witness ==
    /\ b_state = "ENDED"
    /\ b_closes["stt"] = "failed"
    /\ b_closes["llm"] = "closed"
    /\ b_closes["tts"] = "closed"

\* C32: close_call of one call leaves the shared client session untouched:
\* the adapter holds the same session, as open as before, and no other call
\* is touched; a session becomes closed only in a step of stop().
C32_CloseCallLeavesSession ==
    [][/\ (ops' = ops + 1
            /\ \E c \in Calls :
                /\ calls[c].op # "close_call"
                /\ calls' = [calls EXCEPT ![c] =
                        [op |-> "close_call", pc |-> "done", session |-> 0]])
            => (a_session' = a_session /\ sessions' = sessions)
       /\ \A i \in 1..Len(sessions) :
            (~sessions[i].closed /\ sessions'[i].closed)
                => (stop_pc = "closing" \/ stop_pc' = "closing")]_vars

\* one call has been closed while another has a request in flight on the
\* adapter's open session
C32_Witness ==
    /\ calls[1].op = "close_call"
    /\ calls[2].pc = "posted"
    /\ a_session # 0
    /\ calls[2].session = a_session
    /\ ~sessions[a_session].closed

\* C33: no client session leaks across stop(): whenever a stop() completes,
\* whatever open_call, transcribe or synthesize of other calls ran while it
\* was suspended, every session the adapter created is closed.
C33_NoSessionLeak ==
    [][stops' = stops + 1 =>
        \A i \in 1..Len(sessions') : sessions'[i].closed]_vars

\* C37: the chunking of a synthesis is well formed for every target rate,
\* chunk duration (zero and negative included) and encoding: the frame size is
\* at least bytes_per_sample, no chunk is empty or longer than the frame size,
\* and the frame size is a whole multiple of bytes_per_sample, so that no
\* 16-bit sample is split between two chunks.
C37_ChunkingWellFormed ==
    (akind = "azure_tts" /\ t_pc \in {"streaming", "done"}
        /\ t_chunks # <<>>) =>
        LET bps == BytesPerSample(t_in.target_encoding)
            frame == FrameSize(t_in.target_encoding, t_in.target_rate,
                               t_in.chunk_ms)
        IN /\ frame >= bps
           /\ \A i \in 1..Len(t_chunks) :
                 /\ t_chunks[i].hi > t_chunks[i].lo
                 /\ t_chunks[i].hi - t_chunks[i].lo <= frame
           /\ frame % bps = 0

\* C38: on one GCalendar instance at most one request's execute() is in
\* progress at a time, whatever operations the threads call, and the lock is
\* held only by a thread whose execute() is in progress: it is released on
\* every path out of the request, a failing one included.
C38_ExecuteMutuallyExclusive ==
    /\ \A t, u \in Threads :
          (g_threads[t].pc = "executing" /\ g_threads[u].pc = "executing")
              => t = u
    /\ \A t \in Threads : g_threads[t].pc = "executing" => g_lock = t
    /\ g_lock # 0 => g_threads[g_lock].pc = "executing"
C38_Witness ==
    \E t, u \in Threads :
        /\ t # u
        /\ g_calls = 2
        /\ g_threads[t].failed
        /\ g_threads[t].pc = "returned"
        /\ g_threads[u].pc = "executing"
        /\ g_threads[u].requests = 1
        /\ g_lock = u

\* C39: no GCalendar operation raises. Without a service it returns its
\* empty value and issues no request; when a request fails it returns the
\* same empty value; list_events requests pages until one has no
\* nextPageToken and returns the items of all its pages in page order.
C39_OperationsNeverRaise ==
    \A t \in Threads :
        LET th == g_threads[t] IN
        /\ ~th.raised
        /\ th.pc # "raised"
        /\ ~g_service => th.requests = 0
        /\ th.pc = "returned" =>
              /\ ~g_service => th.result = EmptyValue(th.op)
              /\ th.failed => th.result = EmptyValue(th.op)
              /\ (g_service /\ ~th.failed /\ th.op = "list_events") =>
                    /\ th.requests = Len(th.served)
                    /\ \A i \in 1..Len(th.served) :
                          th.served[i].next <=> i < Len(th.served)
                    /\ th.result = [kind |-> "list",
                                    items |-> PageItems(th.served)]
              /\ (g_service /\ ~th.failed /\ th.op # "list_events") =>
                    /\ th.requests = 1
                    /\ th.result = [kind |-> "event"]
C39_Witness ==
    \E t, u \in Threads :
        /\ g_threads[t].pc = "returned" /\ g_threads[t].op = "list_events"
        /\ g_threads[t].result.kind = "list"
        /\ g_threads[t].result.items = <<1, 2>>
        /\ g_threads[u].pc = "returned" /\ g_threads[u].op = "list_events"
        /\ g_threads[u].failed /\ g_threads[u].requests = 2

\* C40: both log endpoints answer a request for a missing container, one
\* that neither the name filter nor the exact lookup finds, with status 404,
\* and answer with status 500 only when something else failed.
C40_MissingContainerIs404 ==
    l_pc = "responded" =>
        LET missing == /\ l_docker.from_env = "ok"
                       /\ l_docker.list = "none"
                       /\ l_docker.get = "not_found"
        IN /\ missing => l_response.status = 404
           /\ l_response.status = 500 => ~missing

====
